---- MODULE Spec2Model ----
(***************************************************************************)
(* FuelEU compliance dashboard: the pool allocator and validator           *)
(* (server/domain/pooling-service.ts), the compliance calculator           *)
(* (server/domain/compliance-service.ts), and the HTTP handlers            *)
(* (server/routes.ts) on their storage (server/storage.ts).                *)
(*                                                                         *)
(* Every number of the program is a JavaScript number, a double. The       *)
(* model holds each number as the exact value of the double and rounds     *)
(* the result of every arithmetic operation as IEEE 754 does (see          *)
(* "JavaScript numbers" below); whole numbers are written Num(n).          *)
(***************************************************************************)
EXTENDS Integers, Sequences, FiniteSets, TLC

\* ------------------------------------------------------------------ bounds
\* Longest member list handed to allocatePoolBalances.
MaxMembers == 3
\* Balances of allocator inputs range over -MaxCb..MaxCb.
MaxCb == 3
\* Longest member list handed to validatePool on its own.
MaxVMembers == 2
\* Balances (before and after) of validator inputs range over -MaxVCb..MaxVCb.
MaxVCb == 3

\* Intensities range over the target plus or minus MaxGhgOffset ten-thousandths.
MaxGhgOffset == 2
\* Consumptions range over 0..MaxFuel tonnes.
MaxFuel == 2
MaxRoutes == 3
MaxBaselineCalls == 2
MaxCbCalls == 2
MaxPoolMembers == 2
MaxBankEntries == 2
MaxPools == 2
MaxStoredMembers == 2
MaxStoreCalls == 3
MaxBankingRequests == 4
MaxBankCalls == 3
MaxHandlerCalls == 2
MaxRaceCalls == 2

ShipNames == <<"R001", "R002", "R003", "R004", "R005">>
Ships(n) == {ShipNames[i] : i \in 1..n}

VARIABLES
    members,      \* allocatePoolBalances: the argument, as it was at the call
    callerArray,  \* allocatePoolBalances: what the caller's array holds now
    results,      \* allocatePoolBalances: the results array
    surplusIdx,   \* allocatePoolBalances: cursor from the most-positive end (0-based)
    deficitIdx,   \* allocatePoolBalances: cursor from the most-negative end (0-based)
    iters,        \* allocatePoolBalances: number of loop bodies executed so far
    pc,           \* allocatePoolBalances: "idle" | "start" | "loop" | "done"
    vmembers,     \* validatePool: the argument of a stand-alone call
    validation,   \* validatePool: the value returned by that call
    vpc,          \* validatePool: "idle" | "start" | "done"
    ghgIntensity,     \* compliance-service: the intensity argument
    fuelConsumption,  \* compliance-service: the consumption argument
    cb,               \* calculateComplianceBalance: the value returned
    cbpc,             \* calculateComplianceBalance: "idle" | "start" | "done"
    compliant,        \* isCompliant: the value returned
    icpc,             \* isCompliant: "idle" | "start" | "done"
    routesBaseline,   \* table routes: routeId -> its is_baseline column
    shipComplianceTbl,  \* table ship_compliance: rows in insertion order
    bankEntriesTbl,     \* table bank_entries: rows in insertion order
    poolsTbl,           \* table pools: rows in insertion order
    poolMembersTbl,     \* table pool_members: rows in insertion order
    calls             \* the server's handler invocations: locals and position

allocVars == <<members, callerArray, results, surplusIdx, deficitIdx, iters, pc>>
validateVars == <<vmembers, validation, vpc>>
complianceVars == <<ghgIntensity, fuelConsumption, cb, cbpc, compliant, icpc>>
tableVars == <<routesBaseline, shipComplianceTbl, bankEntriesTbl, poolsTbl, poolMembersTbl>>
serverVars == <<tableVars, calls>>
vars == <<allocVars, validateVars, complianceVars, serverVars>>
notAllocVars == <<validateVars, complianceVars, serverVars>>
notValidateVars == <<allocVars, complianceVars, serverVars>>
notComplianceVars == <<allocVars, validateVars, serverVars>>
domainVars == <<allocVars, validateVars, complianceVars>>

\* ------------------------------------------------------- natural numbers
\* TLC's integers have 32 bits and a double's significand has 53, so the
\* significands are natural numbers of any size: the sequence of their
\* digits in base 2^15, least significant first, without leading zero
\* digits (0 is the empty sequence).
RECURSIVE Pow2(_)
Pow2(n) == IF n <= 0 THEN 1 ELSE 2 * Pow2(n - 1)
RECURSIVE BigTrim(_)
BigTrim(a) ==
    IF a = <<>> THEN a
    ELSE IF a[Len(a)] = 0 THEN BigTrim(SubSeq(a, 1, Len(a) - 1))
    ELSE a
RECURSIVE BigOfNat(_)
BigOfNat(n) == IF n = 0 THEN <<>> ELSE <<n % 32768>> \o BigOfNat(n \div 32768)
BigDigit(a, i) == IF i <= Len(a) THEN a[i] ELSE 0
RECURSIVE BigCmpFrom(_, _, _)
BigCmpFrom(a, b, i) ==
    IF i = 0 THEN 0
    ELSE IF a[i] < b[i] THEN -1
    ELSE IF a[i] > b[i] THEN 1
    ELSE BigCmpFrom(a, b, i - 1)
\* -1, 0 or 1 as a < b, a = b or a > b.
BigCmp(a, b) ==
    IF Len(a) < Len(b) THEN -1
    ELSE IF Len(a) > Len(b) THEN 1
    ELSE BigCmpFrom(a, b, Len(a))
RECURSIVE BigAddFrom(_, _, _, _)
BigAddFrom(a, b, i, carry) ==
    IF i > Len(a) /\ i > Len(b)
    THEN (IF carry = 0 THEN <<>> ELSE <<carry>>)
    ELSE LET s == BigDigit(a, i) + BigDigit(b, i) + carry
         IN <<s % 32768>> \o BigAddFrom(a, b, i + 1, s \div 32768)
BigAdd(a, b) == BigAddFrom(a, b, 1, 0)
RECURSIVE BigSubFrom(_, _, _, _)
BigSubFrom(a, b, i, borrow) ==
    IF i > Len(a) THEN <<>>
    ELSE LET d == a[i] - BigDigit(b, i) - borrow
         IN IF d < 0 THEN <<d + 32768>> \o BigSubFrom(a, b, i + 1, 1)
            ELSE <<d>> \o BigSubFrom(a, b, i + 1, 0)
\* a - b, for a >= b.
BigSub(a, b) == BigTrim(BigSubFrom(a, b, 1, 0))
RECURSIVE BigMulSmallFrom(_, _, _, _)
BigMulSmallFrom(a, d, i, carry) ==
    IF i > Len(a) THEN (IF carry = 0 THEN <<>> ELSE <<carry>>)
    ELSE LET p == a[i] * d + carry
         IN <<p % 32768>> \o BigMulSmallFrom(a, d, i + 1, p \div 32768)
\* a * d, for 0 <= d < 2^15.
BigMulSmall(a, d) == IF d = 0 THEN <<>> ELSE BigMulSmallFrom(a, d, 1, 0)
Zeros(n) == [i \in 1..n |-> 0]
RECURSIVE BigMulFrom(_, _, _)
BigMulFrom(a, b, i) ==
    IF i > Len(b) THEN <<>>
    ELSE BigAdd(IF b[i] = 0 THEN <<>> ELSE Zeros(i - 1) \o BigMulSmall(a, b[i]),
                BigMulFrom(a, b, i + 1))
BigMul(a, b) == IF a = <<>> \/ b = <<>> THEN <<>> ELSE BigMulFrom(a, b, 1)
RECURSIVE BigDivSmallFrom(_, _, _, _)
BigDivSmallFrom(a, d, i, r) ==
    IF i = 0 THEN [q |-> <<>>, r |-> r]
    ELSE LET n == r * 32768 + a[i]
             rest == BigDivSmallFrom(a, d, i - 1, n % d)
         IN [q |-> Append(rest.q, n \div d), r |-> rest.r]
\* Quotient and remainder of a by d, for 0 < d < 2^15.
BigDivSmall(a, d) ==
    LET res == BigDivSmallFrom(a, d, Len(a), 0)
    IN [q |-> BigTrim(res.q), r |-> res.r]
\* a * 2^n and floor(a / 2^n).
BigShl(a, n) ==
    IF a = <<>> THEN <<>>
    ELSE Zeros(n \div 15) \o BigMulSmall(a, Pow2(n % 15))
BigShr(a, n) ==
    IF n \div 15 >= Len(a) THEN <<>>
    ELSE BigDivSmall(SubSeq(a, n \div 15 + 1, Len(a)), Pow2(n % 15)).q
RECURSIVE BitsOfDigit(_)
BitsOfDigit(d) == IF d = 0 THEN 0 ELSE 1 + BitsOfDigit(d \div 2)
\* The number of binary digits of a.
BigBits(a) == IF a = <<>> THEN 0 ELSE 15 * (Len(a) - 1) + BitsOfDigit(a[Len(a)])
BigIsEven(a) == a = <<>> \/ a[1] % 2 = 0
RECURSIVE BigMulPow(_, _, _)
BigMulPow(a, d, n) ==
    IF n = 0 THEN a
    ELSE CHOOSE r \in {BigMulPow(b, d, j) : b \in {BigMulSmall(a, d)}, j \in {n - 1}} : TRUE
\* The value of a, for a < 2^31.
RECURSIVE BigToNat(_, _)
BigToNat(a, i) == IF i > Len(a) THEN 0 ELSE a[i] + 32768 * BigToNat(a, i + 1)

\* --------------------------------------------------------- JavaScript numbers
\* A number of the program is a double. The model holds the double's exact
\* value: the binary fraction (neg ? -1 : 1) * m / 2^k, m a natural number
\* as above, kept in lowest terms (k = 0 or m odd; 0 is m = <<>>, k = 0, neg
\* = FALSE, so -0 and 0 are one value, as they are for every comparison of
\* the program). Every operation computes the exact result and rounds it to
\* the nearest double, ties to even, as IEEE 754 does. Exponents are not
\* limited: no value of the model comes near overflow or underflow.
RECURSIVE Lowest(_, _, _)
Lowest(neg, m, k) ==
    IF m = <<>> THEN [neg |-> FALSE, m |-> <<>>, k |-> 0]
    ELSE IF k > 0 /\ BigIsEven(m)
    THEN CHOOSE r \in {Lowest(neg, h, j) : h \in {BigShr(m, 1)}, j \in {k - 1}} : TRUE
    ELSE [neg |-> neg, m |-> m, k |-> k]
\* (neg ? -1 : 1) * m * 2^e.
Scaled(neg, m, e) == IF e >= 0 THEN Lowest(neg, BigShl(m, e), 0) ELSE Lowest(neg, m, -e)
\* (neg ? -1 : 1) * (m + f) * 2^e rounded to p significant binary digits,
\* where 0 <= f < 1 and sticky tells whether f > 0.
RoundTo(neg, m, e, sticky, p) ==
    LET drop == BigBits(m) - p
    IN IF drop <= 0 THEN Scaled(neg, m, e)
       ELSE LET q == BigShr(m, drop)
                rem == BigSub(m, BigShl(q, drop))
                half == BigCmp(rem, BigShl(<<1>>, drop - 1))
                up == half > 0 \/ (half = 0 /\ (sticky \/ ~BigIsEven(q)))
            IN Scaled(neg, IF up THEN BigAdd(q, <<1>>) ELSE q, e + drop)
\* A double has 53 significant binary digits, a REAL column (float4) 24.
DoubleBits == 53
RealBits == 24
RoundDouble(x) == RoundTo(x.neg, x.m, -x.k, FALSE, DoubleBits)
\* A whole number of at most 31 binary digits, to and from a TLA+ integer.
Num(n) ==
    IF n = 0 THEN [neg |-> FALSE, m |-> <<>>, k |-> 0]
    ELSE IF -32768 < n /\ n < 32768 THEN [neg |-> n < 0, m |-> <<IF n < 0 THEN -n ELSE n>>, k |-> 0]
    ELSE [neg |-> n < 0, m |-> BigOfNat(IF n < 0 THEN -n ELSE n), k |-> 0]
IsSmallWhole(x) == x.k = 0 /\ Len(x.m) <= 2
IntOf(x) ==
    LET n == IF Len(x.m) = 0 THEN 0
             ELSE IF Len(x.m) = 1 THEN x.m[1]
             ELSE BigToNat(x.m, 1)
    IN IF x.neg THEN -n ELSE n
Negated(x) == IF x.m = <<>> THEN x ELSE [x EXCEPT !.neg = ~x.neg]
\* The exact sum and product.
ExactSum(a, b) ==
    LET k == IF a.k >= b.k THEN a.k ELSE b.k
        ma == BigShl(a.m, k - a.k)
        mb == BigShl(b.m, k - b.k)
    IN IF a.neg = b.neg THEN Lowest(a.neg, BigAdd(ma, mb), k)
       ELSE IF BigCmp(ma, mb) >= 0 THEN Lowest(a.neg, BigSub(ma, mb), k)
       ELSE Lowest(b.neg, BigSub(mb, ma), k)
ExactProduct(a, b) == Lowest(a.neg # b.neg, BigMul(a.m, b.m), a.k + b.k)
\* a + b, a - b, a * b and -a of the program.
NumAdd(a, b) ==
    IF IsSmallWhole(a) /\ IsSmallWhole(b) THEN Num(IntOf(a) + IntOf(b))
    ELSE RoundDouble(ExactSum(a, b))
NumSub(a, b) == NumAdd(a, Negated(b))
NumMul(a, b) == RoundDouble(ExactProduct(a, b))
\* -1, 0 or 1 as a < b, a === b or a > b.
NumCmp(a, b) ==
    IF a = b THEN 0
    ELSE IF IsSmallWhole(a) /\ IsSmallWhole(b) THEN (IF IntOf(a) < IntOf(b) THEN -1 ELSE 1)
    ELSE IF ExactSum(a, Negated(b)).neg THEN -1 ELSE 1
NumLt(a, b) == NumCmp(a, b) < 0
NumLeq(a, b) == NumCmp(a, b) <= 0
\* The double a decimal literal m * 10^e of the source denotes: the double
\* nearest to it.
RECURSIVE DivPow10(_, _, _)
DivPow10(m, n, sticky) ==
    IF n = 0 THEN [q |-> m, sticky |-> sticky]
    ELSE CHOOSE r \in {DivPow10(d.q, j, sticky \/ d.r # 0) :
                          d \in {BigDivSmall(m, 10)}, j \in {n - 1}} : TRUE
NearestTo(neg, m, e, p) ==
    IF e >= 0 THEN RoundTo(neg, BigMulPow(m, 10, e), 0, FALSE, p)
    ELSE LET shift == BigBits(BigMulPow(<<1>>, 10, -e)) + p + 2
             d == DivPow10(BigShl(m, shift), -e, FALSE)
         IN RoundTo(neg, d.q, -shift, d.sticky, p)
Literal(m, e) == NearestTo(m < 0, BigOfNat(IF m < 0 THEN -m ELSE m), e, DoubleBits)

\* The number of decimal digits of a natural number (0 has none).
RECURSIVE BigDigits10(_)
BigDigits10(a) == IF a = <<>> THEN 0 ELSE 1 + BigDigits10(BigDivSmall(a, 10).q)
\* The least j >= from with m * 10^j / 2^k >= 1, for m # 0.
RECURSIVE LeadingZeros(_, _, _)
LeadingZeros(m, k, from) ==
    IF BigShr(BigMulPow(m, 10, from), k) # <<>> THEN from ELSE LeadingZeros(m, k, from + 1)
\* The decimal exponent of m / 2^k: the e with 10^e <= m / 2^k < 10^(e + 1).
DecimalExponent(m, k) ==
    IF BigShr(m, k) # <<>> THEN BigDigits10(BigShr(m, k)) - 1 ELSE -LeadingZeros(m, k, 1)
\* floor(m / 2^k / 10^s).
FloorScaled(m, k, s) ==
    IF s >= 0 THEN DivPow10(BigShr(m, k), s, FALSE).q ELSE BigShr(BigMulPow(m, 10, -s), k)
\* -1, 0 or 1 as m / 2^k is below, at or above the middle of d * 10^s and
\* (d + 1) * 10^s.
CmpMiddle(m, k, d, s) ==
    LET twice == BigAdd(BigShl(d, 1), <<1>>)
    IN IF s >= 0 THEN BigCmp(BigShl(m, 1), BigShl(BigMulPow(twice, 10, s), k))
       ELSE BigCmp(BigShl(BigMulPow(m, 10, -s), 1), BigShl(twice, k))
\* Whether the number of p significant binary digits nearest to d * 10^s is
\* m / 2^k.
ReadsBack(m, k, d, s, p) == NearestTo(FALSE, d, s, p) = [neg |-> FALSE, m |-> m, k |-> k]
\* The two decimals d * 10^s next to m / 2^k, the nearer one first (the even
\* one first when m / 2^k is in the middle of them).
NeighboursOf(m, k, s) ==
    CHOOSE pair \in {IF side < 0 \/ (side = 0 /\ BigIsEven(FloorScaled(m, k, s)))
                     THEN <<FloorScaled(m, k, s), BigAdd(FloorScaled(m, k, s), <<1>>)>>
                     ELSE <<BigAdd(FloorScaled(m, k, s), <<1>>), FloorScaled(m, k, s)>> :
                        side \in {CmpMiddle(m, k, FloorScaled(m, k, s), s)}} : TRUE
\* The decimal of n digits that reads back as m / 2^k, a number of p
\* significant binary digits whose decimal exponent is e, as a sequence of
\* one text, or of none when there is no such decimal: of the two decimals of
\* n digits next to m / 2^k the nearer one is taken if it reads back,
\* otherwise the other one if that does.
DecimalOf(m, k, e, n, p) ==
    CHOOSE texts \in {IF ReadsBack(m, k, pair[1], e - n + 1, p)
                      THEN <<[d |-> pair[1], s |-> e - n + 1]>>
                      ELSE IF ReadsBack(m, k, pair[2], e - n + 1, p)
                      THEN <<[d |-> pair[2], s |-> e - n + 1]>>
                      ELSE <<>> : pair \in {NeighboursOf(m, k, e - n + 1)}} : TRUE
\* Nine decimal digits always suffice for a float4 and seventeen for a double.
DigitsFor(p) == IF p = RealBits THEN 9 ELSE 17
Least(S) == CHOOSE n \in S : \A j \in S : n <= j
\* The shortest decimal that reads back as m / 2^k.
ShortestDecimal(m, k, e, p) ==
    CHOOSE text \in {DecimalOf(m, k, e, Least(enough), p)[1] :
                        enough \in {{n \in 1..DigitsFor(p) :
                                        DecimalOf(m, k, e, n, p) # <<>>}}} : TRUE
\* The text PostgreSQL sends for a float4 (float4out with the default
\* extra_float_digits): the shortest decimal that reads back as the same
\* float4.
float4out(x) == ShortestDecimal(x.m, x.k, DecimalExponent(x.m, x.k), RealBits)
\* String(n), the text the driver sends for a number parameter: the shortest
\* decimal that reads back as the same double.
NumberToString(x) == ShortestDecimal(x.m, x.k, DecimalExponent(x.m, x.k), DoubleBits)
\* Whether the text of x is x itself: a whole number below 2^53 is written
\* out with all its digits.
TextIsExact(x) == x.m = <<>> \/ (x.k = 0 /\ BigBits(x.m) <= DoubleBits)
\* Whether a number with a fraction lies exactly halfway between two float4:
\* its numerator is odd, so it does when the numerator has one bit more than
\* a float4 holds.
IsHalfway(x) == x.k > 0 /\ BigBits(x.m) = RealBits + 1
\* A REAL column (float4) keeps of the number written to it the float4 nearest
\* to the text that was sent (float4in rounds the decimal, not the double).
\* The text reads back as the double, and every halfway point of float4 is a
\* double, so no halfway point lies between the double and its text or on
\* the text: unless the double is itself halfway, the float4 nearest to the
\* text is the float4 nearest to the double.
Float4(x) ==
    IF TextIsExact(x) \/ (x.k > 0 /\ ~IsHalfway(x))
    THEN RoundTo(x.neg, x.m, -x.k, FALSE, RealBits)
    ELSE CHOOSE kept \in {NearestTo(x.neg, text.d, text.s, RealBits) :
                             text \in {NumberToString(x)}} : TRUE
\* The same for a whole number 0 < v < 2^30, computed in TLA+ integers: the
\* float4 nearest to a whole number c < 2^31, the decimal of n digits for v,
\* and the whole number the shortest text denotes. These are functions, so
\* that an argument is computed once, when the function is applied.
RECURSIVE Pow10(_)
Pow10(n) == IF n <= 0 THEN 1 ELSE 10 * Pow10(n - 1)
RECURSIVE Digits10(_)
Digits10(v) == IF v = 0 THEN 0 ELSE 1 + Digits10(v \div 10)
Float4OfNat[c \in Nat] ==
    LET unit == Pow2(BitsOfDigit(c) - RealBits)
        q == c \div unit
        r == c % unit
    IN IF 2 * r > unit \/ (2 * r = unit /\ q % 2 = 1) THEN (q + 1) * unit ELSE q * unit
DecimalOfNat[v \in Nat, n \in Nat] ==
    LET p == Pow10(Digits10(v) - n)
        lo == (v \div p) * p
        hi == lo + p
        loFirst == 2 * (v - lo) < p \/ (2 * (v - lo) = p /\ (v \div p) % 2 = 0)
        first == IF loFirst THEN lo ELSE hi
        second == IF loFirst THEN hi ELSE lo
    IN IF Float4OfNat[first] = v THEN [ok |-> TRUE, c |-> first]
       ELSE IF Float4OfNat[second] = v THEN [ok |-> TRUE, c |-> second]
       ELSE [ok |-> FALSE, c |-> first]
\* The decimal of the fewest digits, n or more, that reads back as v (the
\* decimal of all the digits of v is v).
ShortestNat[v \in Nat, n \in Nat] ==
    IF DecimalOfNat[v, n].ok THEN DecimalOfNat[v, n].c ELSE ShortestNat[v, n + 1]
float4outNat[v \in Nat] == ShortestNat[v, 1]
\* parseFloat of the text PostgreSQL sends for the float4 kept.
parseFloat4(kept) ==
    IF kept.m = <<>> THEN kept
    ELSE IF IsSmallWhole(kept)
    THEN CHOOSE read \in {Num(IF kept.neg THEN -v ELSE v) :
                             v \in {float4outNat[IF kept.neg THEN -IntOf(kept) ELSE IntOf(kept)]}} : TRUE
    ELSE CHOOSE read \in {NearestTo(kept.neg, text.d, text.s, DoubleBits) :
                             text \in {float4out(kept)}} : TRUE
\* What the program reads from a REAL column that was given x: the column
\* keeps the float4 nearest to x, and the driver hands back parseFloat of its
\* text. A table of the model holds its REAL columns as they are read.
Real(x) ==
    CHOOSE read \in {parseFloat4(kept) : kept \in {Float4(given) : given \in {x}}} : TRUE

IsZero(x) == x.m = <<>>
IsNegative(x) == x.neg
IsPositive(x) == x.m # <<>> /\ ~x.neg
CbValues == {Num(n) : n \in -MaxCb..MaxCb}
VCbValues == {Num(n) : n \in -MaxVCb..MaxVCb}

\* ------------------------------------------------------- JavaScript helpers
\* Math.min on two numbers.
MathMin(a, b) == IF NumLeq(a, b) THEN a ELSE b
\* Math.abs.
MathAbs(a) == IF IsNegative(a) THEN Negated(a) ELSE a

\* members.reduce((sum, m) => sum + m.cbBefore, 0): a left fold.
RECURSIVE ReduceCbBefore(_, _, _)
ReduceCbBefore(ms, i, sum) ==
    IF i > Len(ms) THEN sum ELSE ReduceCbBefore(ms, i + 1, NumAdd(sum, ms[i].cbBefore))
SumCbBefore(ms) == ReduceCbBefore(ms, 1, Num(0))

RECURSIVE ReduceCbAfter(_, _, _)
ReduceCbAfter(ms, i, sum) ==
    IF i > Len(ms) THEN sum ELSE ReduceCbAfter(ms, i + 1, NumAdd(sum, ms[i].cbAfter))
SumCbAfter(ms) == ReduceCbAfter(ms, 1, Num(0))

\* ------------------------------------------------------- compliance-service
\* TARGET_INTENSITY_2025 = 89.3368 and ENERGY_CONVERSION_FACTOR = 41000.
TARGET_INTENSITY_2025 == Literal(893368, -4)
ENERGY_CONVERSION_FACTOR == Num(41000)

\* Faulty variant: the difference is taken the other way round.
CalculateActualMinusTarget(ghg, fuel) ==
    LET energyInScope == NumMul(fuel, ENERGY_CONVERSION_FACTOR)
    IN NumMul(NumSub(ghg, TARGET_INTENSITY_2025), energyInScope)
calculateComplianceBalance(ghg, fuel) ==
    LET energyInScope == NumMul(fuel, ENERGY_CONVERSION_FACTOR)
    IN NumMul(NumSub(TARGET_INTENSITY_2025, ghg), energyInScope)

\* Faulty variant: the boundary is excluded.
IsCompliantStrict(ghg) == NumLt(ghg, TARGET_INTENSITY_2025)
isCompliant(ghg) == NumLeq(ghg, TARGET_INTENSITY_2025)

\* ------------------------------------------------------ allocatePoolBalances
\* The comparator (a, b) => b.cbBefore - a.cbBefore: negative puts a first.
SortCompareAscending(a, b) == NumSub(a.cbBefore, b.cbBefore)
sortCompare(a, b) == NumSub(b.cbBefore, a.cbBefore)

\* Array.prototype.sort is stable: x goes before the first element it is
\* strictly ordered before, after every element it ties with.
RECURSIVE InsertSorted(_, _, _)
InsertSorted(x, s, i) ==
    IF i > Len(s) THEN Append(s, x)
    ELSE IF IsNegative(sortCompare(x, s[i]))
         THEN SubSeq(s, 1, i - 1) \o <<x>> \o SubSeq(s, i, Len(s))
         ELSE InsertSorted(x, s, i + 1)

RECURSIVE SortFrom(_, _, _)
SortFrom(ms, i, acc) ==
    IF i > Len(ms) THEN acc ELSE SortFrom(ms, i + 1, InsertSorted(ms[i], acc, 1))

\* Faulty variant: the copy is left in the caller's order.
Unsorted(ms) == ms
\* [...members].sort(...): a sorted copy.
sorted(ms) == SortFrom(ms, 1, <<>>)

\* What the caller's array holds after the call: the sort runs on the copy
\* [...members], and the map builds new objects, so the array is as it was.
SortedInPlace(ms) == sorted(ms)
membersAfterCall(ms) == ms

\* sorted.map(m => ({ ...m, cbAfter: m.cbBefore }))
withCbAfter(m) == [shipId |-> m.shipId, cbBefore |-> m.cbBefore, cbAfter |-> m.cbBefore]
initialResults(ms) == [i \in 1..Len(sorted(ms)) |-> withCbAfter(sorted(ms)[i])]

\* Math.min(surplus.cbAfter, Math.abs(deficit.cbAfter))
TransferDeficitOnly(surplus, deficit) == MathAbs(deficit.cbAfter)
TransferSurplusOnly(surplus, deficit) == surplus.cbAfter
transferAmount(surplus, deficit) == MathMin(surplus.cbAfter, MathAbs(deficit.cbAfter))

\* while (surplusIdx < deficitIdx)
loopCond(st) == st.surplusIdx < st.deficitIdx

\* The state the allocator starts its loop in.
loopInit(ms) ==
    [results |-> initialResults(ms), surplusIdx |-> 0, deficitIdx |-> Len(ms) - 1]

\* Faulty variants of the transfer: the surplus is not debited; the cursors move
\* only on a strict sign change.
TransferStepNoDebit(st) ==
    LET s == st.surplusIdx
        d == st.deficitIdx
        t == transferAmount(st.results[s + 1], st.results[d + 1])
        r2 == [st.results EXCEPT ![d + 1].cbAfter = NumAdd(@, t)]
    IN [results |-> r2,
        surplusIdx |-> IF ~IsPositive(r2[s + 1].cbAfter) THEN s + 1 ELSE s,
        deficitIdx |-> IF ~IsNegative(r2[d + 1].cbAfter) THEN d - 1 ELSE d]
TransferStepStrictAdvance(st) ==
    LET s == st.surplusIdx
        d == st.deficitIdx
        t == transferAmount(st.results[s + 1], st.results[d + 1])
        r1 == [st.results EXCEPT ![s + 1].cbAfter = NumSub(@, t)]
        r2 == [r1 EXCEPT ![d + 1].cbAfter = NumAdd(@, t)]
    IN [results |-> r2,
        surplusIdx |-> IF IsNegative(r2[s + 1].cbAfter) THEN s + 1 ELSE s,
        deficitIdx |-> IF IsPositive(r2[d + 1].cbAfter) THEN d - 1 ELSE d]

\* Faulty variant: both cursors move after every transfer.
TransferStepAlwaysAdvance(st) ==
    LET s == st.surplusIdx
        d == st.deficitIdx
        t == transferAmount(st.results[s + 1], st.results[d + 1])
        r1 == [st.results EXCEPT ![s + 1].cbAfter = NumSub(@, t)]
        r2 == [r1 EXCEPT ![d + 1].cbAfter = NumAdd(@, t)]
    IN [results |-> r2, surplusIdx |-> s + 1, deficitIdx |-> d - 1]

\* Lines 43-49: the transfer of one loop body, with the two cursor updates
\* that follow it (cbAfter <= 0, cbAfter >= 0).
transferStep(st) ==
    LET s == st.surplusIdx
        d == st.deficitIdx
        t == transferAmount(st.results[s + 1], st.results[d + 1])
        r1 == [st.results EXCEPT ![s + 1].cbAfter = NumSub(@, t)]
        r2 == [r1 EXCEPT ![d + 1].cbAfter = NumAdd(@, t)]
    IN [results |-> r2,
        surplusIdx |-> IF ~IsPositive(r2[s + 1].cbAfter) THEN s + 1 ELSE s,
        deficitIdx |-> IF ~IsNegative(r2[d + 1].cbAfter) THEN d - 1 ELSE d]

\* One execution of the body of the while loop.
loopBody(st) ==
    LET surplus == st.results[st.surplusIdx + 1]
        deficit == st.results[st.deficitIdx + 1]
    IN IF ~IsPositive(surplus.cbAfter) THEN [st EXCEPT !.surplusIdx = @ + 1]
       ELSE IF ~IsNegative(deficit.cbAfter) THEN [st EXCEPT !.deficitIdx = @ - 1]
       ELSE transferStep(st)

\* The whole call, as a function of its argument.
RECURSIVE runLoop(_)
runLoop(st) == IF loopCond(st) THEN runLoop(loopBody(st)) ELSE st
allocatePoolBalances(ms) == runLoop(loopInit(ms)).results

\* ------------------------------------------------------------- validatePool
RECURSIVE rule2Errors(_, _, _)
rule2Errors(ms, i, errors) ==
    IF i > Len(ms) THEN errors
    ELSE rule2Errors(ms, i + 1,
            IF IsNegative(ms[i].cbBefore) /\ NumLt(ms[i].cbAfter, ms[i].cbBefore)
            THEN Append(errors, "Ship " \o ms[i].shipId \o " would exit worse than entry")
            ELSE errors)

RECURSIVE rule3Errors(_, _, _)
rule3Errors(ms, i, errors) ==
    IF i > Len(ms) THEN errors
    ELSE rule3Errors(ms, i + 1,
            IF IsPositive(ms[i].cbBefore) /\ IsNegative(ms[i].cbAfter)
            THEN Append(errors, "Ship " \o ms[i].shipId \o " would exit with negative CB")
            ELSE errors)

rule1Errors(ms) ==
    IF IsNegative(SumCbBefore(ms)) THEN <<"Total pool sum must be >= 0">> ELSE <<>>

\* Faulty variants: the rules stop at the first failing one; rule 2 flags a deficit
\* ship that exits as it entered.
ValidatePoolShortCircuit(ms) ==
    LET e1 == rule1Errors(ms)
        e2 == rule2Errors(ms, 1, e1)
        e3 == rule3Errors(ms, 1, e2)
        errors == IF e1 # <<>> THEN e1 ELSE IF e2 # <<>> THEN e2 ELSE e3
    IN [valid |-> Len(errors) = 0, errors |-> errors]
RECURSIVE Rule2NonStrictErrors(_, _, _)
Rule2NonStrictErrors(ms, i, errors) ==
    IF i > Len(ms) THEN errors
    ELSE Rule2NonStrictErrors(ms, i + 1,
            IF IsNegative(ms[i].cbBefore) /\ NumLeq(ms[i].cbAfter, ms[i].cbBefore)
            THEN Append(errors, "Ship " \o ms[i].shipId \o " would exit worse than entry")
            ELSE errors)
ValidatePoolRule2NonStrict(ms) ==
    LET errors == rule3Errors(ms, 1, Rule2NonStrictErrors(ms, 1, rule1Errors(ms)))
    IN [valid |-> Len(errors) = 0, errors |-> errors]

validatePool(ms) ==
    LET errors == rule3Errors(ms, 1, rule2Errors(ms, 1, rule1Errors(ms)))
    IN [valid |-> Len(errors) = 0, errors |-> errors]

\* ---------------------------------------------------------------- inputs
\* Ship ids of a member list of length n: pairwise distinct.
InjectiveIds(n) ==
    {ids \in [1..n -> Ships(MaxMembers)] : \A i, j \in 1..n : ids[i] = ids[j] => i = j}
\* The member list with ship ids ids and balances cbs.
MemberList(n, ids, cbs) == [i \in 1..n |-> [shipId |-> ids[i], cbBefore |-> cbs[i]]]

\* The member lists of the documented scenarios A, B and E.
ScenarioA == <<[shipId |-> "A", cbBefore |-> Num(100)], [shipId |-> "B", cbBefore |-> Num(-40)],
               [shipId |-> "C", cbBefore |-> Num(-30)]>>
ScenarioB == <<[shipId |-> "A", cbBefore |-> Num(10)], [shipId |-> "B", cbBefore |-> Num(-40)]>>
ScenarioE == <<[shipId |-> "A", cbBefore |-> Num(50)], [shipId |-> "B", cbBefore |-> Num(-50)]>>

\* A list of members that carry both balances, for validatePool on its own.
ValidatedList(n, bs, as) ==
    [i \in 1..n |-> [shipId |-> ShipNames[i], cbBefore |-> bs[i], cbAfter |-> as[i]]]

NoValidation == [valid |-> FALSE, errors |-> <<"not called">>]

AllocIdle ==
    /\ members = <<>> /\ callerArray = <<>> /\ results = <<>> /\ surplusIdx = 0 /\ deficitIdx = 0
    /\ iters = 0 /\ pc = "idle"
ValidateIdle == vmembers = <<>> /\ validation = NoValidation /\ vpc = "idle"

NoNumber == Num(0)
ComplianceIdle ==
    /\ ghgIntensity = NoNumber /\ fuelConsumption = NoNumber /\ cb = NoNumber /\ cbpc = "idle"
    /\ compliant = FALSE /\ icpc = "idle"

\* The routes table holds the first MaxRoutes seeded routes; UnknownRouteId is
\* an id no route has.
RouteIds == Ships(MaxRoutes)
UnknownRouteId == "R999"
\* The seed marks R001 as the baseline route.
SeedBaseline == [r \in RouteIds |-> r = "R001"]
\* The routes the pool requests run on: R014 as well, a seeded route whose ship
\* has no compliance record of 2024.
PoolRouteIds == RouteIds \cup {"R014"}
PoolSeedBaseline == [r \in PoolRouteIds |-> r = "R001"]
\* The id of a route that createRoute adds.
NewRouteId == "R016"
ServerIdle ==
    /\ routesBaseline = SeedBaseline
    /\ shipComplianceTbl = <<>> /\ bankEntriesTbl = <<>>
    /\ poolsTbl = <<>> /\ poolMembersTbl = <<>>
    /\ calls = <<>>
DomainIdle == AllocIdle /\ ValidateIdle /\ ComplianceIdle

\* Intensities (gCO2e/MJ): those of the seeded routes R001..R005, and the
\* ten-thousandths around the target. Consumptions (tonnes): those of the
\* seeded routes, and 0..MaxFuel.
SeedIntensities ==
    {Literal(910, -1), Literal(880, -1), Literal(935, -1), Literal(892, -1), Literal(905, -1)}
SeedConsumptions == {Num(5000), Num(4800), Num(5100), Num(4900), Num(4950)}
TargetPlus(k) == Literal(893368 + k, -4)
GhgInputs == SeedIntensities \cup {TargetPlus(k) : k \in -MaxGhgOffset..MaxGhgOffset}
FuelInputs == SeedConsumptions \cup {Num(f) : f \in 0..MaxFuel}


\* ------------------------------------------- allocatePoolBalances, stepwise
InitAlloc ==
    /\ \/ \E n \in 0..MaxMembers :
             \E ids \in InjectiveIds(n), cbs \in [1..n -> CbValues] :
                members = MemberList(n, ids, cbs)
       \/ members \in {ScenarioA, ScenarioB, ScenarioE}
    /\ callerArray = members
    /\ results = <<>> /\ surplusIdx = 0 /\ deficitIdx = 0 /\ iters = 0
    /\ pc = "start"
    /\ ValidateIdle
    /\ ComplianceIdle
    /\ ServerIdle

\* Lines 23-27: sort a copy, annotate, set the cursors.
AllocStart ==
    /\ pc = "start"
    /\ callerArray' = membersAfterCall(callerArray)
    /\ results' = loopInit(members).results
    /\ surplusIdx' = loopInit(members).surplusIdx
    /\ deficitIdx' = loopInit(members).deficitIdx
    /\ iters' = 0
    /\ pc' = "loop"
    /\ UNCHANGED members
    /\ UNCHANGED notAllocVars

\* Lines 29-50: one iteration of the loop.
AllocLoop ==
    /\ pc = "loop"
    /\ loopCond([results |-> results, surplusIdx |-> surplusIdx, deficitIdx |-> deficitIdx])
    /\ LET st == loopBody([results |-> results, surplusIdx |-> surplusIdx,
                           deficitIdx |-> deficitIdx])
       IN /\ results' = st.results
          /\ surplusIdx' = st.surplusIdx
          /\ deficitIdx' = st.deficitIdx
    /\ iters' = iters + 1
    /\ UNCHANGED <<members, callerArray, pc>>
    /\ UNCHANGED notAllocVars

\* Line 52: the loop condition fails and the results are returned.
AllocReturn ==
    /\ pc = "loop"
    /\ ~loopCond([results |-> results, surplusIdx |-> surplusIdx, deficitIdx |-> deficitIdx])
    /\ pc' = "done"
    /\ UNCHANGED <<members, callerArray, results, surplusIdx, deficitIdx, iters>>
    /\ UNCHANGED notAllocVars

NextAlloc == AllocStart \/ AllocLoop \/ AllocReturn
SpecAlloc == InitAlloc /\ [][NextAlloc]_vars

\* --------------------------------------------------- validatePool, one call
InitValidate ==
    /\ AllocIdle
    /\ ComplianceIdle
    /\ ServerIdle
    /\ \E n \in 0..MaxVMembers :
          \E bs \in [1..n -> VCbValues], as \in [1..n -> VCbValues] :
             vmembers = ValidatedList(n, bs, as)
    /\ validation = NoValidation
    /\ vpc = "start"

ValidateCall ==
    /\ vpc = "start"
    /\ validation' = validatePool(vmembers)
    /\ vpc' = "done"
    /\ UNCHANGED vmembers
    /\ UNCHANGED notValidateVars

NextValidate == ValidateCall
SpecValidate == InitValidate /\ [][NextValidate]_vars

\* ------------------------------------------------- allocator and validator claims
\* The allocator has returned.
Returned == pc = "done"
\* Some balance was moved by the call.
Transferred == \E i \in 1..Len(results) : results[i].cbAfter # results[i].cbBefore
\* The member of the output that carries ship id s.
MemberOf(ms, s) == ms[CHOOSE i \in 1..Len(ms) : ms[i].shipId = s]

\* C1: when allocatePoolBalances has returned, the sum of cbAfter over its
\* output equals the sum of cbBefore over its input, for every input list
\* (any signs, any order, empty and single-member lists included).
C1_Conservation ==
    Returned => SumCbAfter(results) = SumCbBefore(members)
\* A three-member call in which balance moved has returned.
C1_Witness ==
    /\ Returned /\ Len(members) = 3 /\ Transferred /\ iters >= 2

\* C2: for every input whose cbBefore values sum to >= 0, validatePool applied to
\* the allocator's output returns valid = true and an empty error list.
C2_NonNegativeSumValid ==
    (Returned /\ ~IsNegative(SumCbBefore(members)))
        => validatePool(results) = [valid |-> TRUE, errors |-> <<>>]
C2_Witness ==
    /\ Returned /\ ~IsNegative(SumCbBefore(members)) /\ Transferred
    /\ \E i, j \in 1..Len(results) :
          /\ IsPositive(results[i].cbBefore) /\ IsZero(results[i].cbAfter)
          /\ IsNegative(results[j].cbBefore) /\ IsZero(results[j].cbAfter)

\* C3: for every input whose cbBefore values sum to < 0, validatePool applied to
\* the allocator's output returns valid = false, and its error list holds the
\* total-sum error and no per-ship error.
C3_NegativeSumRejected ==
    (Returned /\ IsNegative(SumCbBefore(members)))
        => validatePool(results) =
              [valid |-> FALSE, errors |-> <<"Total pool sum must be >= 0">>]
\* Scenario B (+10, -40) has been allocated.
C3_Witness ==
    /\ Returned /\ members = ScenarioB /\ Transferred
    /\ SumCbBefore(members) = Num(-30)

\* C4: when the input's total is >= 0 (the surplus covers the deficits), every
\* member that entered in surplus leaves with cbAfter >= 0 and every member that
\* entered in deficit leaves with cbAfter <= 0.
C4_NoSignCrossing ==
    (Returned /\ ~IsNegative(SumCbBefore(members)))
        => \A i \in 1..Len(results) :
              /\ IsPositive(results[i].cbBefore) => ~IsNegative(results[i].cbAfter)
              /\ IsNegative(results[i].cbBefore) => ~IsPositive(results[i].cbAfter)
\* A surplus member gave less than all it had to a smaller deficit.
C4_Witness ==
    /\ Returned /\ IsPositive(SumCbBefore(members))
    /\ \E i, j \in 1..Len(results) :
          /\ IsPositive(results[i].cbBefore) /\ IsPositive(results[i].cbAfter)
          /\ NumLt(results[i].cbAfter, results[i].cbBefore)
          /\ IsNegative(results[j].cbBefore) /\ IsZero(results[j].cbAfter)

\* C5: when the input's total is >= 0 every deficit is fully covered: each
\* member with cbBefore < 0 ends with cbAfter = 0. Scenario A (+100, -40, -30)
\* yields 30, 0, 0 and scenario E (+50, -50) yields 0, 0.
C5_DeficitsCovered ==
    /\ (Returned /\ ~IsNegative(SumCbBefore(members)))
          => \A i \in 1..Len(results) :
                IsNegative(results[i].cbBefore) => IsZero(results[i].cbAfter)
    /\ (Returned /\ members = ScenarioA)
          => /\ MemberOf(results, "A").cbAfter = Num(30)
             /\ MemberOf(results, "B").cbAfter = Num(0)
             /\ MemberOf(results, "C").cbAfter = Num(0)
    /\ (Returned /\ members = ScenarioE)
          => /\ MemberOf(results, "A").cbAfter = Num(0)
             /\ MemberOf(results, "B").cbAfter = Num(0)
\* Scenario A has been allocated.
C5_Witness ==
    /\ Returned /\ members = ScenarioA
    /\ \E i \in 1..Len(results) : IsNegative(results[i].cbBefore)

\* C7: the loop terminates: every iteration advances the surplus cursor or
\* retreats the deficit cursor (and never moves one the other way), so at most
\* n - 1 iterations run for n members; while the loop runs both cursors point
\* at members of the list; the call returns with the cursors met or crossed,
\* and every member of the output has a cbAfter value.
C7_Terminates ==
    LET st == [results |-> results, surplusIdx |-> surplusIdx, deficitIdx |-> deficitIdx]
        n == Len(members)
    IN /\ (pc = "loop" /\ loopCond(st))
            => /\ 0 <= surplusIdx /\ deficitIdx <= n - 1
               /\ loopBody(st).surplusIdx >= surplusIdx
               /\ loopBody(st).deficitIdx <= deficitIdx
               /\ \/ loopBody(st).surplusIdx > surplusIdx
                  \/ loopBody(st).deficitIdx < deficitIdx
       /\ pc \in {"loop", "done"} => iters <= (IF n = 0 THEN 0 ELSE n - 1)
       /\ Returned
            => /\ surplusIdx >= deficitIdx
               /\ Len(results) = n
               /\ \A i \in 1..n : "cbAfter" \in DOMAIN results[i]
\* A call on MaxMembers members used all of its n - 1 iterations.
C7_Witness ==
    /\ Returned /\ Len(members) >= 3 /\ iters = Len(members) - 1
    /\ Transferred

\* C8: the output holds exactly the input members (same ship ids, same count,
\* each with its cbBefore), ordered by descending cbBefore, and the caller's
\* array is as it was before the call.
C8_SameMembersSorted ==
    Returned =>
        /\ Len(results) = Len(members)
        /\ \A i \in 1..Len(members) :
              Cardinality({j \in 1..Len(results) :
                    /\ results[j].shipId = members[i].shipId
                    /\ results[j].cbBefore = members[i].cbBefore})
              = Cardinality({j \in 1..Len(members) :
                    /\ members[j].shipId = members[i].shipId
                    /\ members[j].cbBefore = members[i].cbBefore})
        /\ \A i, j \in 1..Len(results) :
              i < j => NumLeq(results[j].cbBefore, results[i].cbBefore)
        /\ callerArray = members
\* A call whose input was not in descending order has returned.
C8_Witness ==
    /\ Returned /\ Len(members) = 3
    /\ NumLt(members[1].cbBefore, members[2].cbBefore)
    /\ NumLt(members[2].cbBefore, members[3].cbBefore)

\* C20: the allocator is greedy from both ends. While the loop runs and when it
\* has returned, every member before the surplus cursor has cbAfter <= 0 and
\* every member after the deficit cursor has cbAfter >= 0. In the output, a
\* surplus member has given (cbAfter < cbBefore) only if every member with a
\* strictly greater cbBefore ends at 0, and a deficit member has received
\* (cbAfter > cbBefore) only if every member with a strictly smaller cbBefore
\* ends at 0.
C20_GreedyFromBothEnds ==
    /\ pc \in {"loop", "done"} =>
          /\ \A i \in 1..Len(results) :
                i < surplusIdx + 1 => ~IsPositive(results[i].cbAfter)
          /\ \A i \in 1..Len(results) :
                i > deficitIdx + 1 => ~IsNegative(results[i].cbAfter)
    /\ Returned =>
          \A i, j \in 1..Len(results) :
             /\ (/\ IsPositive(results[i].cbBefore)
                 /\ NumLt(results[i].cbAfter, results[i].cbBefore)
                 /\ NumLt(results[i].cbBefore, results[j].cbBefore))
                   => IsZero(results[j].cbAfter)
             /\ (/\ IsNegative(results[i].cbBefore)
                 /\ NumLt(results[i].cbBefore, results[i].cbAfter)
                 /\ NumLt(results[j].cbBefore, results[i].cbBefore))
                   => IsZero(results[j].cbAfter)
\* The second-largest surplus gave after the largest was used up, and the
\* second-deepest deficit received after the deepest was covered.
C20_Witness ==
    /\ Returned
    /\ \E i, j \in 1..Len(results) :
          /\ IsPositive(results[i].cbBefore)
          /\ NumLt(results[i].cbAfter, results[i].cbBefore)
          /\ NumLt(results[i].cbBefore, results[j].cbBefore) /\ IsZero(results[j].cbAfter)

\* C21: for every input, whatever the sign of its total, no member moves away
\* from zero or across it: cbBefore >= 0 gives 0 <= cbAfter <= cbBefore,
\* cbBefore <= 0 gives cbBefore <= cbAfter <= 0, and cbBefore = 0 keeps 0.
C21_TowardsZeroOnly ==
    Returned =>
        \A i \in 1..Len(results) :
           /\ ~IsNegative(results[i].cbBefore)
                 => /\ ~IsNegative(results[i].cbAfter)
                    /\ NumLeq(results[i].cbAfter, results[i].cbBefore)
           /\ ~IsPositive(results[i].cbBefore)
                 => /\ NumLeq(results[i].cbBefore, results[i].cbAfter)
                    /\ ~IsPositive(results[i].cbAfter)
\* A pool with a negative total in which balance moved around a member at 0.
C21_Witness ==
    /\ Returned /\ IsNegative(SumCbBefore(members)) /\ Transferred
    /\ \E i \in 1..Len(results) : IsZero(results[i].cbBefore) /\ IsZero(results[i].cbAfter)

\* The lists got from ms by exchanging two neighbours. Every reordering of a
\* list is a chain of such exchanges, and every list of the chain is an input
\* of the specification too.
NeighbourSwaps(ms) ==
    {[i \in 1..Len(ms) |-> IF i = k THEN ms[k + 1] ELSE IF i = k + 1 THEN ms[k] ELSE ms[i]] :
        k \in 1..(Len(ms) - 1)}
PairwiseDistinct(ms) ==
    \A i, j \in 1..Len(ms) : ms[i].cbBefore = ms[j].cbBefore => i = j
\* The shipId -> cbAfter mapping of an output, as a set of pairs.
AfterByShip(out) == {<<out[i].shipId, out[i].cbAfter>> : i \in 1..Len(out)}

\* C29: for inputs whose cbBefore values are pairwise distinct, the cbAfter
\* given to each shipId does not depend on the order of the input list: every
\* permutation of the input yields the same shipId -> cbAfter mapping. (So only
\* inputs with tied cbBefore values can give different per-ship results.)
\* Stated for the exchange of any two neighbours, on every input list: that
\* gives every permutation, one exchange after the other.
C29_OrderIndependent ==
    (Returned /\ PairwiseDistinct(members)) =>
        \A perm \in NeighbourSwaps(members) :
           AfterByShip(allocatePoolBalances(perm)) = AfterByShip(results)
\* Three members with distinct balances, not given in sorted order, between
\* which balance moved.
C29_Witness ==
    /\ Returned /\ PairwiseDistinct(members) /\ Len(members) = 3 /\ Transferred
    /\ \E i \in 1..2 : NumLt(members[i].cbBefore, members[i + 1].cbBefore)

\* C6: validatePool checks its three rules independently, on any member list:
\* the error list holds the total-sum error iff sum(cbBefore) < 0, one
\* "exit worse" error for each member with cbBefore < 0 and cbAfter < cbBefore,
\* one "negative CB" error for each member with cbBefore > 0 and cbAfter < 0,
\* and nothing else; valid is true iff the list is empty.
ExitsWorse(m) == IntOf(m.cbBefore) < 0 /\ IntOf(m.cbAfter) < IntOf(m.cbBefore)
ExitsNegative(m) == IntOf(m.cbBefore) > 0 /\ IntOf(m.cbAfter) < 0
Occurrences(errors, e) == Cardinality({k \in 1..Len(errors) : errors[k] = e})
RECURSIVE WholeSumBefore(_, _)
WholeSumBefore(ms, i) == IF i > Len(ms) THEN 0 ELSE IntOf(ms[i].cbBefore) + WholeSumBefore(ms, i + 1)
C6_RulesIndependent ==
    vpc = "done" =>
        LET errors == validation.errors
            n == Len(vmembers)
        IN /\ Occurrences(errors, "Total pool sum must be >= 0")
                = (IF WholeSumBefore(vmembers, 1) < 0 THEN 1 ELSE 0)
           /\ \A i \in 1..n :
                /\ Occurrences(errors,
                       "Ship " \o vmembers[i].shipId \o " would exit worse than entry")
                     = (IF ExitsWorse(vmembers[i]) THEN 1 ELSE 0)
                /\ Occurrences(errors,
                       "Ship " \o vmembers[i].shipId \o " would exit with negative CB")
                     = (IF ExitsNegative(vmembers[i]) THEN 1 ELSE 0)
           /\ Len(errors)
                = (IF WholeSumBefore(vmembers, 1) < 0 THEN 1 ELSE 0)
                  + Cardinality({i \in 1..n : ExitsWorse(vmembers[i])})
                  + Cardinality({i \in 1..n : ExitsNegative(vmembers[i])})
           /\ validation.valid = (errors = <<>>)
\* One call broke all three rules at once and got three errors.
C6_Witness ==
    /\ vpc = "done" /\ Len(validation.errors) = 3 /\ ~validation.valid
    /\ WholeSumBefore(vmembers, 1) < 0
    /\ \E i \in 1..Len(vmembers) : ExitsWorse(vmembers[i])
    /\ \E i \in 1..Len(vmembers) : ExitsNegative(vmembers[i])

\* ------------------------------------------ compliance-service, one call each
InitCompliance ==
    /\ AllocIdle
    /\ ValidateIdle
    /\ ServerIdle
    /\ ghgIntensity \in GhgInputs
    /\ fuelConsumption \in FuelInputs
    /\ cb = NoNumber /\ cbpc = "start"
    /\ compliant = FALSE /\ icpc = "start"

CalculateCall ==
    /\ cbpc = "start"
    /\ cb' = calculateComplianceBalance(ghgIntensity, fuelConsumption)
    /\ cbpc' = "done"
    /\ UNCHANGED <<ghgIntensity, fuelConsumption, compliant, icpc>>
    /\ UNCHANGED notComplianceVars

IsCompliantCall ==
    /\ icpc = "start"
    /\ compliant' = isCompliant(ghgIntensity)
    /\ icpc' = "done"
    /\ UNCHANGED <<ghgIntensity, fuelConsumption, cb, cbpc>>
    /\ UNCHANGED notComplianceVars

NextCompliance == CalculateCall \/ IsCompliantCall
SpecCompliance == InitCompliance /\ [][NextCompliance]_vars

\* ------------------------------------------------------- calculator claims
\* C9 as stated: calculateComplianceBalance(91.0, 5000) equals -340,962,000.
C9_AsStated ==
    (cbpc = "done" /\ ghgIntensity = Literal(910, -1) /\ fuelConsumption = Num(5000))
        => cb = Num(-340962000)
\* C9, amended: calculateComplianceBalance(91.0, 5000), computed as
\* (89.3368 - 91.0) * 5000 * 41000, is a deficit of 340,956,000 and a rounding
\* error: the double -340956000.00000066, which is -(340956000 + 11 / 2^24).
C9_ScenarioC ==
    (cbpc = "done" /\ ghgIntensity = Literal(910, -1) /\ fuelConsumption = Num(5000))
        => /\ cb = ExactSum(Num(-340956000), Scaled(TRUE, <<11>>, -24))
           /\ NumLt(Num(-340956001), cb) /\ NumLt(cb, Num(-340956000))
           /\ IsNegative(cb)
C9_Witness ==
    /\ cbpc = "done" /\ ghgIntensity = Literal(910, -1) /\ fuelConsumption = Num(5000)
    /\ IsNegative(cb)

\* The intensities of GhgInputs in ten-thousandths, and the ten-thousandths
\* of one of them.
GhgTenThousandths ==
    {910000, 880000, 935000, 892000, 905000}
        \cup {893368 + k : k \in -MaxGhgOffset..MaxGhgOffset}
IntensityOf == [t \in GhgTenThousandths |-> Literal(t, -4)]
TenThousandths(x) == CHOOSE t \in GhgTenThousandths : IntensityOf[t] = x

\* C10: isCompliant(x) is true iff x <= 89.3368, and 89.3368 itself is
\* compliant.
C10_BoundaryInclusive ==
    icpc = "done" =>
        /\ compliant = (TenThousandths(ghgIntensity) <= 893368)
        /\ TenThousandths(ghgIntensity) = 893368 => compliant
C10_Witness ==
    /\ icpc = "done" /\ TenThousandths(ghgIntensity) = 893368 /\ compliant

\* The whole number a consumption stands for.
Tonnes(f) == IntOf(f)

\* C11: for non-negative fuelConsumption, calculateComplianceBalance does not
\* increase when ghgIntensity increases and, for ghgIntensity below the target
\* 89.3368, does not decrease when fuelConsumption increases.
C11_Monotone ==
    (cbpc = "done" /\ Tonnes(fuelConsumption) >= 0) =>
        /\ \A g2 \in GhgInputs :
              TenThousandths(ghgIntensity) <= TenThousandths(g2)
                 => ~NumLt(cb, calculateComplianceBalance(g2, fuelConsumption))
        /\ TenThousandths(ghgIntensity) < 893368
              => \A f2 \in FuelInputs :
                    Tonnes(fuelConsumption) <= Tonnes(f2)
                       => ~NumLt(calculateComplianceBalance(ghgIntensity, f2), cb)
\* A balance below the target that a higher intensity lowers and a higher
\* consumption raises.
C11_Witness ==
    /\ cbpc = "done" /\ Tonnes(fuelConsumption) > 0
    /\ TenThousandths(ghgIntensity) < 893368
    /\ \E g2 \in GhgInputs :
          /\ TenThousandths(ghgIntensity) < TenThousandths(g2)
          /\ NumLt(calculateComplianceBalance(g2, fuelConsumption), cb)
    /\ \E f2 \in FuelInputs :
          /\ Tonnes(fuelConsumption) < Tonnes(f2)
          /\ NumLt(cb, calculateComplianceBalance(ghgIntensity, f2))

\* C12: for fuelConsumption > 0 the balance is positive iff ghgIntensity is
\* below the target and negative iff it is above, so isCompliant(ghgIntensity)
\* holds exactly when the balance is >= 0.
C12_SignMatchesCompliance ==
    (cbpc = "done" /\ icpc = "done" /\ Tonnes(fuelConsumption) > 0) =>
        /\ IsPositive(cb) = (TenThousandths(ghgIntensity) < 893368)
        /\ IsNegative(cb) = (TenThousandths(ghgIntensity) > 893368)
        /\ compliant = ~IsNegative(cb)
\* Both calls were made on the target intensity itself: balance 0, compliant.
C12_Witness ==
    /\ cbpc = "done" /\ icpc = "done" /\ Tonnes(fuelConsumption) > 0
    /\ TenThousandths(ghgIntensity) = 893368 /\ IsZero(cb) /\ compliant

\* --------------------------- POST /api/routes/:routeId/baseline, concurrently
\* Each call is one request being served ("POST baseline") or one call of
\* storage.setBaseline another caller of the storage made ("setBaseline"); the
\* server runs the calls' database statements in any interleaving (every await
\* yields). A request starts at its lookup, a direct call at its first UPDATE.
BaselineCall(op, routeId) ==
    [op |-> op, routeId |-> routeId, pc |-> IF op = "POST baseline" THEN "lookup" ELSE "unset",
     status |-> 0]

\* storage.getRouteByRouteId: the route with that routeId, or undefined.
getRouteByRouteId(routeId) ==
    IF routeId \in DOMAIN routesBaseline THEN routeId ELSE "undefined"

\* setBaseline, first statement: UPDATE routes SET is_baseline = false.
unsetAllBaselines(tbl) == [r \in DOMAIN tbl |-> FALSE]
\* setBaseline, second statement: UPDATE routes SET is_baseline = true WHERE
\* route_id = routeId; it matches no row when no route has the routeId.
setTargetBaseline(tbl, routeId) == [r \in DOMAIN tbl |-> IF r = routeId THEN TRUE ELSE tbl[r]]
\* storage.createRoute: INSERT INTO routes, is_baseline as the caller gave it.
createRoute(tbl, routeId, isBaseline) ==
    [r \in DOMAIN tbl \cup {routeId} |-> IF r = routeId THEN isBaseline ELSE tbl[r]]
\* The other DatabaseStorage of the repository (part_001) has two more
\* writers of the table. A row is named here by its routeId, which stands for
\* the row's id as well: no row has the id of a routeId the table lacks.
\* updateRoute: UPDATE routes SET updates WHERE id. Nothing changes when no
\* row has the id (NotFoundError) or when another row has the route_id asked
\* for (UNIQUE, StorageError); of the columns route_id and is_baseline are
\* held.
updateRoute(tbl, routeId, updates) ==
    IF routeId \notin DOMAIN tbl THEN tbl
    ELSE LET named == IF "routeId" \in DOMAIN updates THEN updates.routeId ELSE routeId
             flag == IF "isBaseline" \in DOMAIN updates THEN updates.isBaseline
                     ELSE tbl[routeId]
         IN IF named \in DOMAIN tbl \ {routeId} THEN tbl
            ELSE [r \in (DOMAIN tbl \ {routeId}) \cup {named} |->
                     IF r = named THEN flag ELSE tbl[r]]
\* deleteRoute: DELETE FROM routes WHERE id (NotFoundError when no row has it).
deleteRoute(tbl, routeId) == [r \in DOMAIN tbl \ {routeId} |-> tbl[r]]
\* The updates a caller of the storage passes: Partial<InsertRoute>.
RouteUpdates ==
    {[isBaseline |-> TRUE], [isBaseline |-> FALSE], [year |-> 2025]}
        \cup {[routeId |-> r] : r \in RouteIds \cup {NewRouteId}}

InitBaseline ==
    /\ DomainIdle
    /\ shipComplianceTbl = <<>> /\ bankEntriesTbl = <<>>
    /\ poolsTbl = <<>> /\ poolMembersTbl = <<>>
    /\ routesBaseline \in {b \in [RouteIds -> BOOLEAN] :
                              Cardinality({r \in RouteIds : b[r]}) <= 1}
    /\ \E n \in 1..MaxBaselineCalls :
          calls \in [1..n -> {BaselineCall(op, r) : op \in {"POST baseline", "setBaseline"},
                                                    r \in RouteIds \cup {UnknownRouteId}}]

\* routes.ts 43-46: look the route up; answer 404 when there is none.
BaselineLookup(i) ==
    /\ calls[i].pc = "lookup"
    /\ calls' = IF getRouteByRouteId(calls[i].routeId) = "undefined"
                THEN [calls EXCEPT ![i].pc = "done", ![i].status = 404]
                ELSE [calls EXCEPT ![i].pc = "unset"]
    /\ UNCHANGED <<domainVars, tableVars>>
\* storage.ts 76: the first awaited statement of setBaseline.
BaselineUnsetAll(i) ==
    /\ calls[i].pc = "unset"
    /\ routesBaseline' = unsetAllBaselines(routesBaseline)
    /\ calls' = [calls EXCEPT ![i].pc = "set"]
    /\ UNCHANGED <<domainVars, shipComplianceTbl, bankEntriesTbl, poolsTbl, poolMembersTbl>>
\* storage.ts 79-82, then routes.ts 49: the second statement, and the answer
\* of a request.
BaselineSetTarget(i) ==
    /\ calls[i].pc = "set"
    /\ routesBaseline' = setTargetBaseline(routesBaseline, calls[i].routeId)
    /\ calls' = [calls EXCEPT ![i].pc = "done",
                              ![i].status = IF calls[i].op = "POST baseline" THEN 200 ELSE 0]
    /\ UNCHANGED <<domainVars, shipComplianceTbl, bankEntriesTbl, poolsTbl, poolMembersTbl>>
\* storage.ts 66-72: a caller of the storage adds a route (route_id is UNIQUE,
\* so a routeId is added once).
StorageCreateRoute ==
    /\ NewRouteId \notin DOMAIN routesBaseline
    /\ \E isBaseline \in BOOLEAN :
          routesBaseline' = createRoute(routesBaseline, NewRouteId, isBaseline)
    /\ UNCHANGED <<domainVars, shipComplianceTbl, bankEntriesTbl, poolsTbl, poolMembersTbl, calls>>

\* part_001 150-167: a caller of the storage updates a route.
StorageUpdateRoute ==
    /\ \E r \in RouteIds \cup {NewRouteId, UnknownRouteId}, updates \in RouteUpdates :
          routesBaseline' = updateRoute(routesBaseline, r, updates)
    /\ UNCHANGED <<domainVars, shipComplianceTbl, bankEntriesTbl, poolsTbl, poolMembersTbl, calls>>
\* part_001 169-183: a caller of the storage deletes a route.
StorageDeleteRoute ==
    /\ \E r \in RouteIds \cup {NewRouteId, UnknownRouteId} :
          routesBaseline' = deleteRoute(routesBaseline, r)
    /\ UNCHANGED <<domainVars, shipComplianceTbl, bankEntriesTbl, poolsTbl, poolMembersTbl, calls>>

NextBaseline ==
    \/ \E i \in DOMAIN calls : BaselineLookup(i) \/ BaselineUnsetAll(i) \/ BaselineSetTarget(i)
    \/ StorageCreateRoute
    \/ StorageUpdateRoute
    \/ StorageDeleteRoute
SpecBaseline == InitBaseline /\ [][NextBaseline]_vars

\* C13: starting with at most one baseline route, at most one route has
\* isBaseline = true in every reachable state, also when setBaseline calls for
\* different existing routes interleave at their database statements.
C13_AtMostOneBaseline ==
    Cardinality({r \in DOMAIN routesBaseline : routesBaseline[r]}) <= 1

\* The same of the steps of setBaseline alone: a step of a call that starts
\* with at most one baseline leaves at most one.
SetBaselineStepsKeepOne ==
    [][(C13_AtMostOneBaseline /\ \E i \in DOMAIN calls : calls'[i] # calls[i]) =>
          Cardinality({r \in DOMAIN routesBaseline' : routesBaseline'[r]}) <= 1]_vars

\* Call i takes a step.
Steps(i) == calls'[i] # calls[i]
\* C23: setting the baseline to a routeId that matches no route changes
\* nothing: no step of setBaseline(routeId) changes a route's isBaseline flag,
\* and POST /api/routes/:routeId/baseline answers 404 without modifying any
\* route.
C23_UnknownRouteChangesNothing ==
    [][\A i \in DOMAIN calls :
          (getRouteByRouteId(calls[i].routeId) = "undefined" /\ Steps(i)) =>
              /\ routesBaseline' = routesBaseline
              /\ calls[i].op = "POST baseline" => calls'[i].status = 404
      ]_vars
\* The handler's half alone, for a routeId that matches no route when the
\* handler looks it up.
HandlerUnknownRouteChangesNothing ==
    [][\A i \in DOMAIN calls :
          (/\ getRouteByRouteId(calls[i].routeId) = "undefined" /\ Steps(i)
           /\ calls[i].pc = "lookup") =>
              /\ routesBaseline' = routesBaseline
              /\ calls'[i].status = 404 /\ calls'[i].pc = "done"
      ]_vars


\* ------------------------------------ GET /api/compliance/cb, concurrently
\* The seeded routes' intensity (gCO2e/MJ) and consumption (tonnes), as
\* getRouteByRouteId returns them: both are REAL columns, and what is read of a
\* literal of so few digits is the number of the literal.
SeedRoutes ==
    [r \in {"R001", "R002", "R003", "R004", "R005", "R014"} |->
        CASE r = "R001" -> [ghgIntensity |-> Literal(910, -1), fuelConsumption |-> Num(5000)]
          [] r = "R002" -> [ghgIntensity |-> Literal(880, -1), fuelConsumption |-> Num(4800)]
          [] r = "R003" -> [ghgIntensity |-> Literal(935, -1), fuelConsumption |-> Num(5100)]
          [] r = "R004" -> [ghgIntensity |-> Literal(892, -1), fuelConsumption |-> Num(4900)]
          [] r = "R005" -> [ghgIntensity |-> Literal(905, -1), fuelConsumption |-> Num(4950)]
          [] r = "R014" -> [ghgIntensity |-> Literal(857, -1), fuelConsumption |-> Num(4550)]]
Years == {2024, 2025}

\* A table row's position is its SERIAL id; the place of a row that was
\* deleted holds Deleted, as an id is never handed out twice.
Deleted == [deleted |-> TRUE]
LiveIds(tbl) == {i \in DOMAIN tbl : tbl[i] # Deleted}

\* storage.getShipCompliance: the newest row of (shipId, year), or undefined
\* (0 stands for undefined; ids start at 1).
RECURSIVE latestCompliance(_, _, _, _)
latestCompliance(tbl, shipId, year, i) ==
    IF i = 0 THEN 0
    ELSE IF tbl[i] # Deleted /\ tbl[i].shipId = shipId /\ tbl[i].year = year THEN tbl[i].id
    ELSE latestCompliance(tbl, shipId, year, i - 1)
getShipCompliance(tbl, shipId, year) == latestCompliance(tbl, shipId, year, Len(tbl))
\* storage.createShipCompliance: INSERT; the id is the next of the serial.
createShipCompliance(tbl, shipId, year, cbGco2eq) ==
    Append(tbl, [id |-> Len(tbl) + 1, shipId |-> shipId, year |-> year,
                 cbGco2eq |-> Real(cbGco2eq)])
\* storage.updateShipCompliance: UPDATE ... SET cb_gco2eq WHERE id = id.
updateShipCompliance(tbl, id, cbGco2eq) ==
    [i \in 1..Len(tbl) |->
        IF tbl[i] # Deleted /\ tbl[i].id = id THEN [tbl[i] EXCEPT !.cbGco2eq = Real(cbGco2eq)]
        ELSE tbl[i]]
\* The REAL columns of the tables.
RealColumns == {"cbGco2eq", "amountGco2eq", "cbBefore", "cbAfter"}
\* The row with the fields of updates set (drizzle's .set(updates)).
setFields(row, updates) ==
    [f \in DOMAIN row |->
        IF f \notin DOMAIN updates THEN row[f]
        ELSE IF f \in RealColumns THEN Real(updates[f])
        ELSE updates[f]]
\* The other storage implementation's updateShipCompliance(id, updates):
\* UPDATE ship_compliance SET updates WHERE id = id; NotFoundError when no row
\* has the id. Its deleteShipCompliance(id): DELETE ... WHERE id = id.
updateShipCompliancePartial(tbl, id, updates) ==
    IF id \in LiveIds(tbl) THEN [tbl EXCEPT ![id] = setFields(tbl[id], updates)] ELSE tbl
deleteShipCompliance(tbl, id) ==
    IF id \in LiveIds(tbl) THEN [tbl EXCEPT ![id] = Deleted] ELSE tbl

\* A request GET /api/compliance/cb being served (shipId "" is a query with
\* no shipId, year 0 one with no year), or a storage call another caller made
\* (op names the method; such a call is done at once).
CbCall(op, shipId, year, at, status) ==
    [op |-> op, shipId |-> shipId, year |-> year, pc |-> at, cb |-> NoNumber, existing |-> 0,
     status |-> status]
\* The updates a storage caller may pass.
ComplianceUpdates ==
    {[shipId |-> s] : s \in RouteIds} \cup {[year |-> y] : y \in Years}
        \cup {[cbGco2eq |-> Num(0)]}

\* routes.ts 88-98: the request as it is once it has arrived: answered 400 at
\* once without a shipId or a year, otherwise the route is asked for.
cbArrived(shipId, year) ==
    IF shipId = "" \/ year = 0
    THEN CbCall("GET cb", shipId, year, "done", 400)
    ELSE CbCall("GET cb", shipId, year, "route", 0)
\* No request is being served.
NoneInFlight == \A j \in DOMAIN calls : calls[j].pc = "done"
\* The call with a note added for the statements about requests served one at
\* a time: alone, whether no request was being served when it arrived.
ArrivedAlone(call) ==
    [f \in DOMAIN call \cup {"alone"} |-> IF f = "alone" THEN NoneInFlight ELSE call[f]]

InitCb ==
    /\ DomainIdle
    /\ routesBaseline = SeedBaseline
    /\ shipComplianceTbl = <<>> /\ bankEntriesTbl = <<>>
    /\ poolsTbl = <<>> /\ poolMembersTbl = <<>>
    /\ calls = <<>>

\* routes.ts 88-98: a request arrives; 400 at once without a shipId or a
\* year, otherwise the route is asked for.
CbArrive ==
    /\ Len(calls) < MaxCbCalls
    /\ \E shipId \in RouteIds \cup {UnknownRouteId, ""}, year \in Years \cup {0} :
          calls' = Append(calls, cbArrived(shipId, year))
    /\ UNCHANGED <<domainVars, tableVars>>
\* routes.ts 98-113: the route is there: cb 0 and nothing stored when the
\* ship has none; otherwise the balance of the ship's route is computed and
\* the existing record asked for.
CbLookupRoute(i) ==
    /\ calls[i].pc = "route"
    /\ calls' =
          IF getRouteByRouteId(calls[i].shipId) = "undefined"
          THEN [calls EXCEPT ![i].pc = "done", ![i].status = 200, ![i].cb = Num(0)]
          ELSE [calls EXCEPT
                  ![i].pc = "find",
                  ![i].cb = calculateComplianceBalance(
                                SeedRoutes[calls[i].shipId].ghgIntensity,
                                SeedRoutes[calls[i].shipId].fuelConsumption)]
    /\ UNCHANGED <<domainVars, tableVars>>
\* routes.ts 113: the awaited lookup of the existing record.
CbFindExisting(i) ==
    /\ calls[i].pc = "find"
    /\ calls' = [calls EXCEPT
                   ![i].pc = "write",
                   ![i].existing = getShipCompliance(shipComplianceTbl, calls[i].shipId,
                                                     calls[i].year)]
    /\ UNCHANGED <<domainVars, tableVars>>
\* routes.ts 114-127: update the record found, or create one; then answer
\* with the cb computed.
CbWrite(i) ==
    /\ calls[i].pc = "write"
    /\ shipComplianceTbl' =
          IF calls[i].existing # 0
          THEN updateShipCompliance(shipComplianceTbl, calls[i].existing, calls[i].cb)
          ELSE createShipCompliance(shipComplianceTbl, calls[i].shipId, calls[i].year,
                                    calls[i].cb)
    /\ calls' = [calls EXCEPT ![i].pc = "done", ![i].status = 200]
    /\ UNCHANGED <<domainVars, routesBaseline, bankEntriesTbl, poolsTbl, poolMembersTbl>>
\* The writers of ship_compliance, called by another user of the storage:
\* createShipCompliance and updateShipCompliance(id, cbGco2eq), and the other
\* storage implementation's updateShipCompliance(id, updates) and
\* deleteShipCompliance(id).
StorageCreateShipCompliance ==
    /\ Len(calls) < MaxCbCalls
    /\ \E shipId \in RouteIds, year \in Years :
          shipComplianceTbl' = createShipCompliance(shipComplianceTbl, shipId, year, Num(0))
    /\ calls' = Append(calls, CbCall("createShipCompliance", "", 0, "done", 0))
    /\ UNCHANGED <<domainVars, routesBaseline, bankEntriesTbl, poolsTbl, poolMembersTbl>>
StorageUpdateShipCompliance ==
    /\ Len(calls) < MaxCbCalls
    /\ \E id \in LiveIds(shipComplianceTbl) :
          shipComplianceTbl' = updateShipCompliance(shipComplianceTbl, id, Num(0))
    /\ calls' = Append(calls, CbCall("updateShipCompliance", "", 0, "done", 0))
    /\ UNCHANGED <<domainVars, routesBaseline, bankEntriesTbl, poolsTbl, poolMembersTbl>>
StorageUpdateShipCompliancePartial ==
    /\ Len(calls) < MaxCbCalls
    /\ \E id \in LiveIds(shipComplianceTbl), updates \in ComplianceUpdates :
          shipComplianceTbl' = updateShipCompliancePartial(shipComplianceTbl, id, updates)
    /\ calls' = Append(calls, CbCall("updateShipCompliance(updates)", "", 0, "done", 0))
    /\ UNCHANGED <<domainVars, routesBaseline, bankEntriesTbl, poolsTbl, poolMembersTbl>>
StorageDeleteShipCompliance ==
    /\ Len(calls) < MaxCbCalls
    /\ \E id \in LiveIds(shipComplianceTbl) :
          shipComplianceTbl' = deleteShipCompliance(shipComplianceTbl, id)
    /\ calls' = Append(calls, CbCall("deleteShipCompliance", "", 0, "done", 0))
    /\ UNCHANGED <<domainVars, routesBaseline, bankEntriesTbl, poolsTbl, poolMembersTbl>>

NextCb ==
    \/ CbArrive
    \/ \E i \in DOMAIN calls : CbLookupRoute(i) \/ CbFindExisting(i) \/ CbWrite(i)
    \/ StorageCreateShipCompliance
    \/ StorageUpdateShipCompliance
    \/ StorageUpdateShipCompliancePartial
    \/ StorageDeleteShipCompliance
SpecCb == InitCb /\ [][NextCb]_vars

\* Only GET /api/compliance/cb requests have been made.
OnlyCbRequests == \A i \in DOMAIN calls : calls[i].op = "GET cb"

\* C18: starting with no compliance records, there is at most one
\* ship_compliance record per (shipId, year) in every state reached by GET
\* /api/compliance/cb requests, also when two requests for the same (shipId,
\* year) interleave between their lookup and their create/update.
C18_OneRecordPerShipYear ==
    OnlyCbRequests =>
        \A i, j \in LiveIds(shipComplianceTbl) :
            (/\ shipComplianceTbl[i].shipId = shipComplianceTbl[j].shipId
             /\ shipComplianceTbl[i].year = shipComplianceTbl[j].year) => i = j

\* ------------------------------------------------------- POST /api/pools
\* The seeded compliance records of R001..R005 and R014 (gCO2eq).
SeedCompliance ==
    << [shipId |-> "R001", year |-> 2024, cbGco2eq |-> 32500000],
       [shipId |-> "R002", year |-> 2024, cbGco2eq |-> 61500000],
       [shipId |-> "R003", year |-> 2024, cbGco2eq |-> -21500000],
       [shipId |-> "R004", year |-> 2025, cbGco2eq |-> 2850000],
       [shipId |-> "R005", year |-> 2025, cbGco2eq |-> -12500000],
       [shipId |-> "R014", year |-> 2025, cbGco2eq |-> 152000000] >>
\* The ship_compliance table holding the seeded records of the ships in S.
RECURSIVE seededCompliance(_, _)
seededCompliance(S, i) ==
    IF i = 0 THEN <<>>
    ELSE LET tbl == seededCompliance(S, i - 1)
             row == SeedCompliance[i]
         IN IF row.shipId \in S
            THEN createShipCompliance(tbl, row.shipId, row.year, Num(row.cbGco2eq))
            ELSE tbl

\* The balance of each seeded route, computed once.
RouteBalances ==
    [r \in DOMAIN SeedRoutes |->
        calculateComplianceBalance(SeedRoutes[r].ghgIntensity, SeedRoutes[r].fuelConsumption)]
\* routes.ts 280: the balance of the ship's stored route.
actualCB(shipId) == RouteBalances[shipId]
\* Faulty variant: the balance the client submitted is taken.
CbToUseClient(compTbl, year, member) == member.cbBefore
\* routes.ts 283-284: compliance?.cbGco2eq ?? actualCB.
cbToUse(compTbl, year, member) ==
    LET id == getShipCompliance(compTbl, member.shipId, year)
    IN IF id # 0 THEN compTbl[id].cbGco2eq ELSE actualCB(member.shipId)
\* routes.ts 269-290: the members with their balances re-derived.
verifiedMembers(compTbl, year, ms) ==
    [i \in 1..Len(ms) |-> [shipId |-> ms[i].shipId, cbBefore |-> cbToUse(compTbl, year, ms[i])]]
\* routes.ts 272-277: the first member whose ship has no route (0: none).
RECURSIVE firstWithoutRoute(_, _)
firstWithoutRoute(ms, i) ==
    IF i > Len(ms) THEN 0
    ELSE IF getRouteByRouteId(ms[i].shipId) = "undefined" THEN i
    ELSE firstWithoutRoute(ms, i + 1)

\* storage.createPool: INSERT INTO pools.
createPool(tbl, year) == Append(tbl, [id |-> Len(tbl) + 1, year |-> year])
\* pool_members has UNIQUE(pool_id, ship_id).
violatesUnique(tbl, poolId, shipId) ==
    \E k \in LiveIds(tbl) : tbl[k].poolId = poolId /\ tbl[k].shipId = shipId
\* An INSERT that fails has taken its id from the serial all the same: the
\* place stays empty.
failedInsert(tbl) == Append(tbl, Deleted)
\* storage.createPoolMember: INSERT INTO pool_members; cb_before and cb_after
\* are REAL columns.
createPoolMember(tbl, poolId, m) ==
    Append(tbl, [poolId |-> poolId, shipId |-> m.shipId, cbBefore |-> Real(m.cbBefore),
                 cbAfter |-> Real(m.cbAfter)])
\* routes.ts 307-314: the inserts in order; the first one that fails throws,
\* and the ones before it stay.
RECURSIVE createPoolMembers(_, _, _, _)
createPoolMembers(tbl, poolId, allocated, i) ==
    IF i > Len(allocated) THEN [tbl |-> tbl, threw |-> FALSE]
    ELSE IF violatesUnique(tbl, poolId, allocated[i].shipId)
    THEN [tbl |-> failedInsert(tbl), threw |-> TRUE]
    ELSE createPoolMembers(createPoolMember(tbl, poolId, allocated[i]), poolId, allocated, i + 1)

\* Faulty variant: a failed validation does not stop the handler.
PoolNeverRejected(validationResult) == FALSE
\* routes.ts 297: !validation.valid
poolRejected(validationResult) == ~validationResult.valid

\* What the handler answers: the status and the JSON body's fields (those a
\* body lacks are left at "", <<>>, 0, FALSE).
PoolResponse(status, error, errors, poolId, ms, totalSum, valid) ==
    [status |-> status, error |-> error, errors |-> errors, poolId |-> poolId,
     members |-> ms, totalSum |-> totalSum, valid |-> valid]
PoolError(status, error, errors) == PoolResponse(status, error, errors, 0, <<>>, Num(0), FALSE)

\* The handler of POST /api/pools on body {year, members}, run to the end
\* with no other writer at work: its response, the pools and pool_members
\* tables it leaves, and its local allocated (<<>> when it returned before the
\* allocation). Year 0 is a body with no year.
postPools(compTbl, pools, poolMembers, year, ms) ==
    IF year = 0 \/ Len(ms) < 2
    THEN [response |-> PoolError(400, "Pool requires year and at least 2 members", <<>>),
          pools |-> pools, poolMembers |-> poolMembers,
          allocated |-> <<>>]
    ELSE IF firstWithoutRoute(ms, 1) # 0
    THEN [response |-> PoolError(400, "Route not found for ship "
                                       \o ms[firstWithoutRoute(ms, 1)].shipId, <<>>),
          pools |-> pools, poolMembers |-> poolMembers,
          allocated |-> <<>>]
    ELSE LET verified == verifiedMembers(compTbl, year, ms)
             allocated == allocatePoolBalances(verified)
             validationResult == validatePool(allocated)
         IN IF poolRejected(validationResult)
            THEN [response |-> PoolError(400, "Pool validation failed",
                                         validationResult.errors),
                  pools |-> pools, poolMembers |-> poolMembers, allocated |-> allocated]
            ELSE LET created == createPool(pools, year)
                     poolId == created[Len(created)].id
                     inserted == createPoolMembers(poolMembers, poolId, allocated, 1)
                 IN IF inserted.threw
                    THEN [response |-> PoolError(500, "Failed to create pool", <<>>),
                          pools |-> created, poolMembers |-> inserted.tbl,
                          allocated |-> allocated]
                    ELSE [response |-> PoolResponse(200, "", <<>>, poolId, allocated,
                                                    SumCbBefore(verified), TRUE),
                          pools |-> created, poolMembers |-> inserted.tbl,
                          allocated |-> allocated]

\* The balances a client may submit with a member: none of them is the ship's.
ClientCbValues == {Num(0), Num(500000000)}
\* The ships a request may name.
PoolShipIds == PoolRouteIds \cup {UnknownRouteId}
PoolMemberInputs == {[shipId |-> s, cbBefore |-> c] : s \in PoolShipIds, c \in ClientCbValues}
NoPoolResponse == PoolError(0, "", <<>>)
\* A request being served: its body, its position, the handler's locals (k is
\* the member the loop is at) and the two tables as they were when it arrived.
PoolCall(year, ms, at, response, pools, poolMembers) ==
    [year |-> year, members |-> ms, pc |-> at, k |-> 1, verified |-> <<>>,
     allocated |-> <<>>, poolId |-> 0, response |-> response,
     poolsBefore |-> pools, poolMembersBefore |-> poolMembers]

\* The seeded compliance records of any of the first routes' ships are there,
\* the others' are not yet; R014 has its seeded record, which is of 2025, so
\* that a pool of 2024 takes its route balance and a pool of 2025 its record.
InitPool ==
    /\ DomainIdle
    /\ routesBaseline = PoolSeedBaseline
    /\ bankEntriesTbl = <<>> /\ poolsTbl = <<>> /\ poolMembersTbl = <<>>
    /\ \E S \in SUBSET RouteIds :
          shipComplianceTbl = seededCompliance(S \cup (PoolRouteIds \ RouteIds), Len(SeedCompliance))
    /\ calls = <<>>

\* routes.ts 260-272: the request arrives; 400 at once without a year or
\* with fewer than 2 members, otherwise the first member's route is asked for.
PoolArrive ==
    /\ calls = <<>>
    /\ \E n \in 0..MaxPoolMembers, year \in Years \cup {0} :
          \E ms \in [1..n -> PoolMemberInputs] :
             calls' = << IF year = 0 \/ Len(ms) < 2
                         THEN PoolCall(year, ms, "done",
                                       PoolError(400, "Pool requires year and at least 2 members",
                                                 <<>>),
                                       poolsTbl, poolMembersTbl)
                         ELSE PoolCall(year, ms, "route", NoPoolResponse, poolsTbl,
                                       poolMembersTbl) >>
    /\ UNCHANGED <<domainVars, tableVars>>
\* routes.ts 272-283: the member's route is there: 400 when the ship has
\* none, otherwise its compliance record is asked for.
PoolGetRoute ==
    /\ calls # <<>> /\ calls[1].pc = "route"
    /\ LET shipId == calls[1].members[calls[1].k].shipId
       IN calls' =
             IF getRouteByRouteId(shipId) = "undefined"
             THEN [calls EXCEPT ![1].pc = "done",
                                ![1].response = PoolError(400, "Route not found for ship "
                                                               \o shipId, <<>>)]
             ELSE [calls EXCEPT ![1].pc = "compliance"]
    /\ UNCHANGED <<domainVars, tableVars>>
\* routes.ts 283-304: the member's record is there and the member is pushed
\* with the balance to use; after the last member the list is allocated and
\* validated: 400 when invalid, otherwise the pool is created.
PoolGetCompliance ==
    /\ calls # <<>> /\ calls[1].pc = "compliance"
    /\ \E member \in {calls[1].members[calls[1].k]} :
       \E verified \in {Append(calls[1].verified,
                                [shipId |-> member.shipId,
                                 cbBefore |-> cbToUse(shipComplianceTbl, calls[1].year, member)])} :
          IF calls[1].k < Len(calls[1].members)
          THEN calls' = [calls EXCEPT ![1].pc = "route", ![1].k = @ + 1,
                                      ![1].verified = verified]
          ELSE \E allocated \in {allocatePoolBalances(verified)} :
               \E validationResult \in {validatePool(allocated)} :
                  calls' =
                     IF poolRejected(validationResult)
                     THEN [calls EXCEPT ![1].pc = "done", ![1].verified = verified,
                                        ![1].allocated = allocated,
                                        ![1].response = PoolError(400, "Pool validation failed",
                                                                  validationResult.errors)]
                     ELSE [calls EXCEPT ![1].pc = "createPool", ![1].verified = verified,
                                        ![1].allocated = allocated]
    /\ UNCHANGED <<domainVars, tableVars>>
\* routes.ts 305: the pool row is inserted.
PoolCreatePool ==
    /\ calls # <<>> /\ calls[1].pc = "createPool"
    /\ poolsTbl' = createPool(poolsTbl, calls[1].year)
    /\ calls' = [calls EXCEPT ![1].pc = "member", ![1].k = 1,
                              ![1].poolId = poolsTbl'[Len(poolsTbl')].id]
    /\ UNCHANGED <<domainVars, routesBaseline, shipComplianceTbl, bankEntriesTbl, poolMembersTbl>>
\* routes.ts 307-329: one member row is inserted; an insert that fails
\* throws and the answer is 500; after the last one the answer is 200.
PoolCreateMember ==
    /\ calls # <<>> /\ calls[1].pc = "member"
    /\ LET m == calls[1].allocated[calls[1].k]
       IN IF violatesUnique(poolMembersTbl, calls[1].poolId, m.shipId)
          THEN /\ poolMembersTbl' = failedInsert(poolMembersTbl)
               /\ calls' = [calls EXCEPT ![1].pc = "done",
                                         ![1].response = PoolError(500, "Failed to create pool",
                                                                   <<>>)]
          ELSE /\ poolMembersTbl' = createPoolMember(poolMembersTbl, calls[1].poolId, m)
               /\ calls' =
                     IF calls[1].k < Len(calls[1].allocated)
                     THEN [calls EXCEPT ![1].k = @ + 1]
                     ELSE [calls EXCEPT
                             ![1].pc = "done",
                             ![1].response = PoolResponse(200, "", <<>>, calls[1].poolId,
                                                          calls[1].allocated,
                                                          SumCbBefore(calls[1].verified), TRUE)]
    /\ UNCHANGED <<domainVars, routesBaseline, shipComplianceTbl, bankEntriesTbl, poolsTbl>>

NextPool ==
    \/ PoolArrive \/ PoolGetRoute \/ PoolGetCompliance \/ PoolCreatePool \/ PoolCreateMember
SpecPool == InitPool /\ [][NextPool]_vars

PoolServed == calls # <<>> /\ calls[1].pc = "done"
\* The rows of pool_members that belong to a pool.
MembersOfPool(poolId) ==
    SelectSeq(poolMembersTbl, LAMBDA r : r # Deleted /\ r.poolId = poolId)

\* C14: pool creation is atomic. Once the request is served, either nothing
\* was persisted, or the pool row and all of its allocated members were.
C14_PoolAtomic ==
    PoolServed =>
        \/ poolsTbl = calls[1].poolsBefore /\ poolMembersTbl = calls[1].poolMembersBefore
        \/ \A p \in DOMAIN poolsTbl :
              Len(MembersOfPool(poolsTbl[p].id)) = Len(calls[1].members)

\* The request that names the ships of ms in the same order and submits 0 for
\* each: all the requests that differ from ms only in the balances the client
\* submitted have this one in common, and it is a request of the specification.
SubmittingZero(ms) == [i \in 1..Len(ms) |-> [shipId |-> ms[i].shipId, cbBefore |-> Num(0)]]
NothingPersisted ==
    poolsTbl = calls[1].poolsBefore /\ poolMembersTbl = calls[1].poolMembersBefore
\* The stored compliance records of (shipId, year).
StoredCb(shipId, year) ==
    {shipComplianceTbl[k].cbGco2eq : k \in
        {j \in LiveIds(shipComplianceTbl) : /\ shipComplianceTbl[j].shipId = shipId
                                          /\ shipComplianceTbl[j].year = year}}
\* The balance of the ship's route, as a REAL column keeps it.
RouteCb(shipId) ==
    Real(calculateComplianceBalance(SeedRoutes[shipId].ghgIntensity,
                                    SeedRoutes[shipId].fuelConsumption))

\* C15: client-submitted cbBefore values never influence pool creation. A
\* request that differs only in the submitted cbBefore values, served on the
\* same stored state, gets the same response and leaves the same rows (stated
\* against the request that submits 0 for every member, which makes any two
\* such requests agree); and each persisted member's cbBefore is the stored
\* compliance record of (shipId, year) if there is one, otherwise the balance
\* of the ship's stored route.
C15_ClientCbIgnored ==
    PoolServed =>
        /\ LET out == postPools(shipComplianceTbl, calls[1].poolsBefore,
                                calls[1].poolMembersBefore, calls[1].year,
                                SubmittingZero(calls[1].members))
           IN /\ out.response = calls[1].response
              /\ out.pools = poolsTbl
              /\ out.poolMembers = poolMembersTbl
        /\ \A k \in LiveIds(poolMembersTbl) :
              LET row == poolMembersTbl[k]
                  stored == StoredCb(row.shipId, calls[1].year)
              IN IF stored # {} THEN row.cbBefore \in stored
                 ELSE row.cbBefore = RouteCb(row.shipId)
\* A pool was created from one stored record and one route balance, and the
\* client had submitted other numbers for both.
C15_Witness ==
    /\ PoolServed /\ calls[1].response.status = 200
    /\ \A i \in DOMAIN calls[1].members :
          \A k \in DOMAIN poolMembersTbl :
             calls[1].members[i].cbBefore # poolMembersTbl[k].cbBefore
    /\ \E k \in DOMAIN poolMembersTbl :
          StoredCb(poolMembersTbl[k].shipId, calls[1].year) = {poolMembersTbl[k].cbBefore}
    /\ \E k \in DOMAIN poolMembersTbl :
          /\ StoredCb(poolMembersTbl[k].shipId, calls[1].year) = {}
          /\ poolMembersTbl[k].cbBefore = RouteCb(poolMembersTbl[k].shipId)

\* C19: a failed pool validation is an ordinary return value. When
\* validatePool reports valid = false for the allocated members, the handler
\* answers 400 with the list of rule-violation strings and persists no pool row
\* and no member row; nothing is persisted either when the request has fewer
\* than 2 members or names a ship with no route.
C19_RejectionPersistsNothing ==
    PoolServed =>
        LET ms == calls[1].members
            routed == \A i \in DOMAIN ms : ms[i].shipId \in PoolRouteIds
            checked == validatePool(allocatePoolBalances(
                           verifiedMembers(shipComplianceTbl, calls[1].year, ms)))
        IN /\ (calls[1].year # 0 /\ Len(ms) >= 2 /\ routed /\ ~checked.valid) =>
                 /\ calls[1].response.status = 400
                 /\ calls[1].response.errors = checked.errors
                 /\ calls[1].response.errors # <<>>
                 /\ NothingPersisted
           /\ Len(ms) < 2 => NothingPersisted
           /\ ~routed => NothingPersisted
\* A pool of two routed ships with a negative sum was refused with the
\* violated rule and nothing was written.
C19_Witness ==
    /\ PoolServed /\ calls[1].response.status = 400
    /\ calls[1].response.error = "Pool validation failed"
    /\ calls[1].response.errors = <<"Total pool sum must be >= 0">>
    /\ Len(calls[1].members) >= 2
    /\ poolsTbl = <<>> /\ poolMembersTbl = <<>>

\* The exact sum of the rows' cbBefore and of their cbAfter.
RECURSIVE TotalBefore(_, _)
TotalBefore(rows, i) ==
    IF i > Len(rows) THEN Num(0) ELSE ExactSum(rows[i].cbBefore, TotalBefore(rows, i + 1))
RECURSIVE TotalAfter(_, _)
TotalAfter(rows, i) ==
    IF i > Len(rows) THEN Num(0) ELSE ExactSum(rows[i].cbAfter, TotalAfter(rows, i + 1))

\* C22: every pool persisted by a successful POST /api/pools has at least two
\* member rows, a total cbBefore >= 0, a total cbAfter equal to the total
\* cbBefore, and no member with cbAfter < 0.
C22_PersistedPoolsSound ==
    (PoolServed /\ calls[1].response.status = 200) =>
        \A p \in DOMAIN poolsTbl :
           LET rows == MembersOfPool(poolsTbl[p].id)
           IN /\ Len(rows) >= 2
              /\ ~IsNegative(TotalBefore(rows, 1))
              /\ TotalAfter(rows, 1) = TotalBefore(rows, 1)
              /\ \A i \in 1..Len(rows) : ~IsNegative(rows[i].cbAfter)
\* No pool holds two rows of one ship.
PersistedShipsDistinct ==
    \A i, j \in LiveIds(poolMembersTbl) :
        (/\ poolMembersTbl[i].poolId = poolMembersTbl[j].poolId
         /\ poolMembersTbl[i].shipId = poolMembersTbl[j].shipId) => i = j
\* The allocation the handler ran held each ship once.
AllocatedShipsDistinct ==
    \A i, j \in DOMAIN calls[1].allocated :
        calls[1].allocated[i].shipId = calls[1].allocated[j].shipId => i = j

\* C30: no pool created through POST /api/pools contains the same shipId
\* twice: when the request lists one ship more than once, that ship is neither
\* counted more than once in the allocation nor persisted as two member rows.
C30_NoDuplicateShip ==
    PoolServed => AllocatedShipsDistinct /\ PersistedShipsDistinct

\* ------------------------------- bank entries: the handlers and the storage
\* storage.createBankEntry: INSERT INTO bank_entries; amount_gco2eq is a REAL
\* column.
createBankEntry(tbl, shipId, year, amountGco2eq) ==
    Append(tbl, [id |-> Len(tbl) + 1, shipId |-> shipId, year |-> year,
                 amountGco2eq |-> Real(amountGco2eq)])
\* storage.getTotalBanked: the entries of (shipId, year), newest first
\* (ORDER BY created_at DESC), reduced with + from 0.
RECURSIVE reduceBanked(_, _, _, _, _)
reduceBanked(tbl, shipId, year, i, sum) ==
    IF i = 0 THEN sum
    ELSE IF tbl[i] # Deleted /\ tbl[i].shipId = shipId /\ tbl[i].year = year
    THEN reduceBanked(tbl, shipId, year, i - 1, NumAdd(sum, tbl[i].amountGco2eq))
    ELSE reduceBanked(tbl, shipId, year, i - 1, sum)
getTotalBanked(tbl, shipId, year) == reduceBanked(tbl, shipId, year, Len(tbl), Num(0))
\* The other storage implementation's updateBankEntry: UPDATE bank_entries SET
\* updates WHERE id = id; NotFoundError when no row has the id.
updateBankEntry(tbl, id, updates) ==
    IF id \in LiveIds(tbl)
    THEN [tbl |-> [tbl EXCEPT ![id] = setFields(tbl[id], updates)], error |-> ""]
    ELSE [tbl |-> tbl, error |-> "NotFoundError"]
\* Its deleteBankEntry: DELETE FROM bank_entries WHERE id = id.
deleteBankEntry(tbl, id) ==
    IF id \in LiveIds(tbl)
    THEN [tbl |-> [tbl EXCEPT ![id] = Deleted], error |-> ""]
    ELSE [tbl |-> tbl, error |-> "NotFoundError"]

\* Faulty variant: no amount is too large.
NeverExceeds(amount, available) == FALSE
\* routes.ts 198 and 236: amount > currentCB, amount > totalBanked.
exceedsAvailable(amount, available) == NumLt(available, amount)

BankResult(status, compTbl, bankTbl) ==
    [status |-> status, compliance |-> compTbl, bank |-> bankTbl]
\* The handler of POST /api/banking/bank on body {shipId, year, amount}
\* (amount 0 is also what a body with no amount gives).
postBank(compTbl, bankTbl, shipId, year, amount) ==
    LET id == getShipCompliance(compTbl, shipId, year)
        currentCB == IF id # 0 THEN compTbl[id].cbGco2eq ELSE Num(0)
    IN IF shipId = "" \/ year = 0 \/ IsZero(amount) THEN BankResult(400, compTbl, bankTbl)
       ELSE IF ~IsPositive(amount) THEN BankResult(400, compTbl, bankTbl)
       ELSE IF ~IsPositive(currentCB) THEN BankResult(400, compTbl, bankTbl)
       ELSE IF exceedsAvailable(amount, currentCB) THEN BankResult(400, compTbl, bankTbl)
       ELSE BankResult(200,
                       IF id # 0
                       THEN updateShipCompliance(compTbl, id, NumSub(currentCB, amount))
                       ELSE compTbl,
                       createBankEntry(bankTbl, shipId, year, amount))
\* GET /api/compliance/adjusted-cb: the cb it reports, baseCB + totalBanked.
adjustedCb(compTbl, bankTbl, shipId, year) ==
    LET id == getShipCompliance(compTbl, shipId, year)
        baseCB == IF id # 0 THEN compTbl[id].cbGco2eq ELSE Num(0)
    IN NumAdd(baseCB, getTotalBanked(bankTbl, shipId, year))

\* The bodies a request may carry (amounts in gCO2eq; year 0 is a body with no
\* year, shipId "" one with no shipId, amount 0 also one with no amount): for
\* R002, whose seeded balance of 2024 is 61,500,000, amounts that are <= 0,
\* that a REAL column keeps as they are (3, 40,000,000, 100,000,000) and that
\* it does not (40,000,003); a body for a ship with a negative balance and one
\* for a year with no record.
BankBodies ==
    {[shipId |-> "R002", year |-> 2024, amount |-> Num(a)] :
        a \in {-10000000, 0, 3, 40000000, 40000003, 100000000}}
    \cup {[shipId |-> "", year |-> 2024, amount |-> Num(3)],
          [shipId |-> "R002", year |-> 0, amount |-> Num(3)],
          [shipId |-> "R002", year |-> 2025, amount |-> Num(3)],
          [shipId |-> "R003", year |-> 2024, amount |-> Num(3)]}
\* The fields an update may set.
BankUpdates == {[amountGco2eq |-> Num(40000003)], [shipId |-> "R003"], [year |-> 2025]}
\* A request POST /api/banking/bank or /apply being served: its body, its
\* position, and the handler's locals (the id of the compliance record read,
\* and the number read: currentCB for bank, totalBanked and then
\* compliance.cbGco2eq for apply). A request starts at "check", with its
\* first storage call under way.
BankCall(op, shipId, year, amount) ==
    [op |-> op, shipId |-> shipId, year |-> year, amount |-> amount, pc |-> "check",
     id |-> 0, read |-> Num(0), status |-> 0]
\* routes.ts 180-191 and 223-234: the request as it is once it has arrived:
\* answered 400 at once when a field is missing or amount <= 0.
arrived(op, shipId, year, amount) ==
    IF shipId = "" \/ year = 0 \/ IsZero(amount) \/ ~IsPositive(amount)
    THEN [BankCall(op, shipId, year, amount) EXCEPT !.pc = "done", !.status = 400]
    ELSE BankCall(op, shipId, year, amount)
\* A call of the storage another caller made, done at once.
BankStorageCall(op, error) == [op |-> op, pc |-> "done", error |-> error]
\* The seeded compliance records of the routes.
SeededRecords == seededCompliance(RouteIds, Len(SeedCompliance))

InitBank ==
    /\ DomainIdle
    /\ routesBaseline = SeedBaseline
    /\ shipComplianceTbl = SeededRecords
    /\ bankEntriesTbl = <<>> /\ poolsTbl = <<>> /\ poolMembersTbl = <<>>
    /\ calls = <<>>

\* A bank or apply request arrives, while fewer than max calls were made.
BankArriveWithin(max) ==
    /\ Len(calls) < max
    /\ \E op \in {"bank", "apply"}, body \in BankBodies :
          calls' = Append(calls, ArrivedAlone(arrived(op, body.shipId, body.year, body.amount)))
    /\ UNCHANGED <<domainVars, tableVars>>
BankArrive == BankArriveWithin(MaxBankCalls)
\* routes.ts 191-203: the compliance record is there; 400 when the balance
\* read is <= 0 or less than amount, otherwise the entry is sent off.
BankCheck(i) ==
    /\ calls[i].op = "bank" /\ calls[i].pc = "check"
    /\ LET id == getShipCompliance(shipComplianceTbl, calls[i].shipId, calls[i].year)
           currentCB == IF id # 0 THEN shipComplianceTbl[id].cbGco2eq ELSE Num(0)
       IN calls' =
             IF \/ ~IsPositive(currentCB)
                \/ exceedsAvailable(calls[i].amount, currentCB)
             THEN [calls EXCEPT ![i].pc = "done", ![i].status = 400]
             ELSE [calls EXCEPT ![i].pc = "insert", ![i].id = id, ![i].read = currentCB]
    /\ UNCHANGED <<domainVars, tableVars>>
\* routes.ts 203-207: the entry of +amount is inserted.
BankInsert(i) ==
    /\ calls[i].op = "bank" /\ calls[i].pc = "insert"
    /\ bankEntriesTbl' = createBankEntry(bankEntriesTbl, calls[i].shipId, calls[i].year,
                                         calls[i].amount)
    /\ calls' = [calls EXCEPT ![i].pc = "update"]
    /\ UNCHANGED <<domainVars, routesBaseline, shipComplianceTbl, poolsTbl, poolMembersTbl>>
\* routes.ts 210-214: the record read at the check is set to currentCB -
\* amount, with the currentCB read at the check.
BankUpdate(i) ==
    /\ calls[i].op = "bank" /\ calls[i].pc = "update"
    /\ shipComplianceTbl' = updateShipCompliance(shipComplianceTbl, calls[i].id,
                                                 NumSub(calls[i].read, calls[i].amount))
    /\ calls' = [calls EXCEPT ![i].pc = "done", ![i].status = 200]
    /\ UNCHANGED <<domainVars, routesBaseline, bankEntriesTbl, poolsTbl, poolMembersTbl>>
\* routes.ts 234-241: the banked total is there; 400 when it is less than
\* amount, otherwise the entry is sent off.
ApplyCheck(i) ==
    /\ calls[i].op = "apply" /\ calls[i].pc = "check"
    /\ LET totalBanked == getTotalBanked(bankEntriesTbl, calls[i].shipId, calls[i].year)
       IN calls' =
             IF exceedsAvailable(calls[i].amount, totalBanked)
             THEN [calls EXCEPT ![i].pc = "done", ![i].status = 400]
             ELSE [calls EXCEPT ![i].pc = "insert", ![i].read = totalBanked]
    /\ UNCHANGED <<domainVars, tableVars>>
\* routes.ts 241-245: the entry of -amount is inserted.
ApplyInsert(i) ==
    /\ calls[i].op = "apply" /\ calls[i].pc = "insert"
    /\ bankEntriesTbl' = createBankEntry(bankEntriesTbl, calls[i].shipId, calls[i].year,
                                         Negated(calls[i].amount))
    /\ calls' = [calls EXCEPT ![i].pc = "read"]
    /\ UNCHANGED <<domainVars, routesBaseline, shipComplianceTbl, poolsTbl, poolMembersTbl>>
\* routes.ts 248-254: the compliance record is read; when there is none the
\* handler answers 200 at once, otherwise the update is sent off.
ApplyRead(i) ==
    /\ calls[i].op = "apply" /\ calls[i].pc = "read"
    /\ LET id == getShipCompliance(shipComplianceTbl, calls[i].shipId, calls[i].year)
       IN calls' = IF id = 0
                   THEN [calls EXCEPT ![i].pc = "done", ![i].status = 200]
                   ELSE [calls EXCEPT ![i].pc = "update", ![i].id = id,
                                      ![i].read = shipComplianceTbl[id].cbGco2eq]
    /\ UNCHANGED <<domainVars, tableVars>>
\* routes.ts 250-254: the record read is set to cbGco2eq + amount, and the
\* handler answers 200.
ApplyUpdate(i) ==
    /\ calls[i].op = "apply" /\ calls[i].pc = "update"
    /\ shipComplianceTbl' = updateShipCompliance(shipComplianceTbl, calls[i].id,
                                                 NumAdd(calls[i].read, calls[i].amount))
    /\ calls' = [calls EXCEPT ![i].pc = "done", ![i].status = 200]
    /\ UNCHANGED <<domainVars, routesBaseline, bankEntriesTbl, poolsTbl, poolMembersTbl>>

\* A caller of the storage interface updates a bank entry.
UpdateBankEntry ==
    /\ Len(calls) < MaxBankCalls
    /\ \E id \in 1..MaxBankEntries, updates \in BankUpdates :
          LET out == updateBankEntry(bankEntriesTbl, id, updates)
          IN /\ bankEntriesTbl' = out.tbl
             /\ calls' = Append(calls, BankStorageCall("updateBankEntry", out.error))
    /\ UNCHANGED <<domainVars, routesBaseline, shipComplianceTbl, poolsTbl, poolMembersTbl>>
\* A caller of the storage interface deletes a bank entry.
DeleteBankEntry ==
    /\ Len(calls) < MaxBankCalls
    /\ \E id \in 1..MaxBankEntries :
          LET out == deleteBankEntry(bankEntriesTbl, id)
          IN /\ bankEntriesTbl' = out.tbl
             /\ calls' = Append(calls, BankStorageCall("deleteBankEntry", out.error))
    /\ UNCHANGED <<domainVars, routesBaseline, shipComplianceTbl, poolsTbl, poolMembersTbl>>

NextBank ==
    \/ BankArrive
    \/ \E i \in DOMAIN calls :
          \/ BankCheck(i) \/ BankInsert(i) \/ BankUpdate(i)
          \/ ApplyCheck(i) \/ ApplyInsert(i) \/ ApplyRead(i) \/ ApplyUpdate(i)
    \/ UpdateBankEntry
    \/ DeleteBankEntry
SpecBank == InitBank /\ [][NextBank]_vars

\* Request i sends off its entry in this step.
Inserts(i, op) ==
    calls[i].op = op /\ calls[i].pc = "insert" /\ calls'[i].pc # "insert"

\* C16: bank entries are append-only. Every step keeps each existing bank
\* entry in place with the same shipId, year and amount; a served bank request
\* appends one positive entry, a served apply request one negative entry, and
\* nothing else changes the table.
C16_AppendOnly ==
    [][/\ \A k \in LiveIds(bankEntriesTbl) :
             k \in DOMAIN bankEntriesTbl' /\ bankEntriesTbl'[k] = bankEntriesTbl[k]
       /\ bankEntriesTbl' # bankEntriesTbl =>
             /\ Len(bankEntriesTbl') = Len(bankEntriesTbl) + 1
             /\ \E i \in DOMAIN calls :
                   \/ /\ Inserts(i, "bank")
                      /\ IsPositive(bankEntriesTbl'[Len(bankEntriesTbl')].amountGco2eq)
                   \/ /\ Inserts(i, "apply")
                      /\ IsNegative(bankEntriesTbl'[Len(bankEntriesTbl')].amountGco2eq)
      ]_vars

\* The two handlers without the other callers of the storage.
HandlerArrive == BankArriveWithin(MaxHandlerCalls)
NextBankHandlers ==
    \/ HandlerArrive
    \/ \E i \in DOMAIN calls :
          \/ BankCheck(i) \/ BankInsert(i) \/ BankUpdate(i)
          \/ ApplyCheck(i) \/ ApplyInsert(i) \/ ApplyRead(i) \/ ApplyUpdate(i)
SpecBankHandlers == InitBank /\ [][NextBankHandlers]_vars

\* The balance stored for (shipId, year), 0 without a record, and the total
\* banked for it.
storedBalance(shipId, year) ==
    LET id == getShipCompliance(shipComplianceTbl, shipId, year)
    IN IF id # 0 THEN shipComplianceTbl[id].cbGco2eq ELSE Num(0)
totalBanked(shipId, year) == getTotalBanked(bankEntriesTbl, shipId, year)
IsBanking(call) == call.op \in {"bank", "apply"}
FieldMissing(call) == call.shipId = "" \/ call.year = 0 \/ IsZero(call.amount)

\* C24: every rejected banking request leaves the stored state unchanged. A
\* bank request is answered 400 when a field is missing, amount <= 0, or the
\* stored balance it reads is <= 0 (or there is no record) or less than
\* amount; an apply request when a field is missing, amount <= 0, or amount
\* exceeds the banked total it reads. A request is answered 400 only on its
\* arrival or at its check, where it has written nothing; the step that
\* answers changes no table, and an answered request takes no further step.
\* This holds with other requests at work in between.
C24_RejectedChangesNothing ==
    [][\A i \in DOMAIN calls' :
          IsBanking(calls'[i]) =>
             IF i \notin DOMAIN calls
             THEN /\ (FieldMissing(calls'[i]) \/ ~IsPositive(calls'[i].amount)) =>
                        calls'[i].status = 400 /\ calls'[i].pc = "done"
                  /\ tableVars' = tableVars
             ELSE /\ (/\ calls[i].op = "bank" /\ calls[i].pc = "check" /\ Steps(i)
                      /\ \/ ~IsPositive(storedBalance(calls[i].shipId, calls[i].year))
                         \/ NumLt(storedBalance(calls[i].shipId, calls[i].year),
                                  calls[i].amount)) =>
                        calls'[i].status = 400
                  /\ (/\ calls[i].op = "apply" /\ calls[i].pc = "check" /\ Steps(i)
                      /\ NumLt(totalBanked(calls[i].shipId, calls[i].year), calls[i].amount)) =>
                        calls'[i].status = 400
                  /\ (calls'[i].status = 400 /\ Steps(i)) =>
                        calls[i].pc = "check" /\ tableVars' = tableVars
                  /\ calls[i].status = 400 => ~Steps(i)
      ]_vars
\* A bank request for more than what was left of a positive balance was
\* refused after another request had banked.
C24_Witness ==
    \E i \in DOMAIN calls :
        /\ calls[i].op = "bank" /\ calls[i].status = 400
        /\ ~FieldMissing(calls[i]) /\ IsPositive(calls[i].amount)
        /\ IsPositive(storedBalance(calls[i].shipId, calls[i].year))
        /\ NumLt(storedBalance(calls[i].shipId, calls[i].year), calls[i].amount)
        /\ bankEntriesTbl # <<>>

\* Every call so far is a bank or apply request that arrived when no other
\* was being served.
OneAtATime == \A i \in DOMAIN calls : IsBanking(calls[i]) /\ calls[i].alone
\* The amounts of the first i requests that were answered 200 for (shipId,
\* year): banked minus applied, exactly.
RECURSIVE netAccepted(_, _, _)
netAccepted(shipId, year, i) ==
    IF i = 0 THEN Num(0)
    ELSE IF calls[i].shipId = shipId /\ calls[i].year = year /\ calls[i].status = 200
    THEN ExactSum(netAccepted(shipId, year, i - 1),
                  IF calls[i].op = "bank" THEN calls[i].amount ELSE Negated(calls[i].amount))
    ELSE netAccepted(shipId, year, i - 1)

\* C25: for a (shipId, year) with a compliance record, a successful bank of a
\* lowers the stored balance by a and raises the banked total by a, a
\* successful apply of a raises the stored balance by a and lowers the banked
\* total by a, so stored balance + banked total (the cb of adjusted-cb) is
\* unchanged; a successful bank never leaves the stored balance negative.
\* Stated for the seeded records once a sequence of bank and apply requests,
\* served one at a time, has been answered.
C25_BankApplyConserve ==
    (OneAtATime /\ NoneInFlight) =>
        \A k \in LiveIds(SeededRecords) :
            LET shipId == SeededRecords[k].shipId
                year == SeededRecords[k].year
                net == netAccepted(shipId, year, Len(calls))
            IN /\ totalBanked(shipId, year) = net
               /\ storedBalance(shipId, year) = ExactSum(SeededRecords[k].cbGco2eq, Negated(net))
               /\ adjustedCb(shipComplianceTbl, bankEntriesTbl, shipId, year)
                     = SeededRecords[k].cbGco2eq
               /\ (\E i \in DOMAIN calls : /\ calls[i].op = "bank" /\ calls[i].status = 200
                                            /\ calls[i].shipId = shipId /\ calls[i].year = year)
                     => ~IsNegative(storedBalance(shipId, year))

\* C26: starting with no bank entries, after any sequence of bank and apply
\* requests served one at a time, the banked total of every (shipId, year) is
\* >= 0.
C26_BankedNeverNegative ==
    OneAtATime =>
        \A shipId \in RouteIds, year \in Years : ~IsNegative(totalBanked(shipId, year))

\* ------------------------------ pools: the operations of the storage interface
\* The seeded pool members of R001..R003 (pool 1).
SeedPoolMembers ==
    << [shipId |-> "R001", cbBefore |-> Num(32500000), cbAfter |-> Num(15000000)],
       [shipId |-> "R002", cbBefore |-> Num(61500000), cbAfter |-> Num(40000000)],
       [shipId |-> "R003", cbBefore |-> Num(-21500000), cbAfter |-> Num(0)] >>
\* updatePool: UPDATE pools SET updates WHERE id = id.
updatePool(tbl, id, updates) ==
    IF id \in LiveIds(tbl)
    THEN [tbl |-> [tbl EXCEPT ![id] = setFields(tbl[id], updates)], error |-> ""]
    ELSE [tbl |-> tbl, error |-> "NotFoundError"]
\* deletePool: DELETE FROM pools WHERE id = id; pool_members.pool_id is
\* declared ON DELETE CASCADE, so the pool's members go with it.
deletePool(pools, tbl, id) ==
    IF id \in LiveIds(pools)
    THEN [pools |-> [pools EXCEPT ![id] = Deleted],
          poolMembers |-> [k \in DOMAIN tbl |->
                              IF tbl[k] # Deleted /\ tbl[k].poolId = id
                              THEN Deleted ELSE tbl[k]],
          error |-> ""]
    ELSE [pools |-> pools, poolMembers |-> tbl, error |-> "NotFoundError"]
\* removePoolMember: DELETE FROM pool_members WHERE id = id.
removePoolMember(tbl, id) ==
    IF id \in LiveIds(tbl)
    THEN [tbl |-> [tbl EXCEPT ![id] = Deleted], error |-> ""]
    ELSE [tbl |-> tbl, error |-> "NotFoundError"]
\* A call of a pool operation of the storage: what was asked, its position
\* and the error it threw ("": none). createPoolMember awaits twice, the other
\* operations run one statement and are done at once.
StoreCall(op, at, poolId, member, error) ==
    [op |-> op, pc |-> at, poolId |-> poolId, member |-> member, error |-> error]
StoreDone(op, error) == StoreCall(op, "done", 0, <<>>, error)

InitPoolStore ==
    /\ DomainIdle
    /\ routesBaseline = SeedBaseline
    /\ shipComplianceTbl = <<>> /\ bankEntriesTbl = <<>>
    /\ poolsTbl = <<>> /\ poolMembersTbl = <<>>
    /\ calls = <<>>

StoreCreatePool ==
    /\ Len(calls) < MaxStoreCalls
    /\ \E year \in Years : poolsTbl' = createPool(poolsTbl, year)
    /\ calls' = Append(calls, StoreDone("createPool", ""))
    /\ UNCHANGED <<domainVars, routesBaseline, shipComplianceTbl, bankEntriesTbl, poolMembersTbl>>
\* part_001 514-524: createPoolMember is called: ValidationError at once
\* without a poolId (0), otherwise the pool is asked for.
StoreCreatePoolMember ==
    /\ Len(calls) < MaxStoreCalls
    /\ \E poolId \in 0..MaxPools, k \in DOMAIN SeedPoolMembers :
          calls' = Append(calls,
                          IF poolId = 0
                          THEN StoreCall("createPoolMember", "done", poolId, SeedPoolMembers[k],
                                         "ValidationError")
                          ELSE StoreCall("createPoolMember", "pool", poolId, SeedPoolMembers[k],
                                         ""))
    /\ UNCHANGED <<domainVars, tableVars>>
\* part_001 524 (getPoolById, 457-468): NotFoundError when there is no such
\* pool, otherwise the INSERT is sent off.
StoreGetPoolById(i) ==
    /\ calls[i].pc = "pool"
    /\ calls' = IF calls[i].poolId \in LiveIds(poolsTbl)
                THEN [calls EXCEPT ![i].pc = "insert"]
                ELSE [calls EXCEPT ![i].pc = "done", ![i].error = "NotFoundError"]
    /\ UNCHANGED <<domainVars, tableVars>>
\* part_001 526-539: the INSERT; it fails, and StorageError is thrown, when the
\* pool has been deleted meanwhile (pool_id REFERENCES pools) or the pool has
\* the ship already (UNIQUE(pool_id, ship_id)).
StoreInsertPoolMember(i) ==
    /\ calls[i].pc = "insert"
    /\ IF \/ calls[i].poolId \notin LiveIds(poolsTbl)
          \/ violatesUnique(poolMembersTbl, calls[i].poolId, calls[i].member.shipId)
       THEN /\ poolMembersTbl' = failedInsert(poolMembersTbl)
            /\ calls' = [calls EXCEPT ![i].pc = "done", ![i].error = "StorageError"]
       ELSE /\ poolMembersTbl' = createPoolMember(poolMembersTbl, calls[i].poolId,
                                                  calls[i].member)
            /\ calls' = [calls EXCEPT ![i].pc = "done"]
    /\ UNCHANGED <<domainVars, routesBaseline, shipComplianceTbl, bankEntriesTbl, poolsTbl>>
StoreUpdatePool ==
    /\ Len(calls) < MaxStoreCalls
    /\ \E id \in 1..MaxPools, year \in Years :
          LET out == updatePool(poolsTbl, id, [year |-> year])
          IN /\ poolsTbl' = out.tbl
             /\ calls' = Append(calls, StoreDone("updatePool", out.error))
    /\ UNCHANGED <<domainVars, routesBaseline, shipComplianceTbl, bankEntriesTbl, poolMembersTbl>>
StoreDeletePool ==
    /\ Len(calls) < MaxStoreCalls
    /\ \E id \in 1..MaxPools :
          LET out == deletePool(poolsTbl, poolMembersTbl, id)
          IN /\ poolsTbl' = out.pools
             /\ poolMembersTbl' = out.poolMembers
             /\ calls' = Append(calls, StoreDone("deletePool", out.error))
    /\ UNCHANGED <<domainVars, routesBaseline, shipComplianceTbl, bankEntriesTbl>>
StoreRemovePoolMember ==
    /\ Len(calls) < MaxStoreCalls
    /\ \E id \in 1..MaxStoredMembers :
          LET out == removePoolMember(poolMembersTbl, id)
          IN /\ poolMembersTbl' = out.tbl
             /\ calls' = Append(calls, StoreDone("removePoolMember", out.error))
    /\ UNCHANGED <<domainVars, routesBaseline, shipComplianceTbl, bankEntriesTbl, poolsTbl>>

NextPoolStore ==
    \/ StoreCreatePool
    \/ StoreCreatePoolMember
    \/ \E i \in DOMAIN calls : StoreGetPoolById(i) \/ StoreInsertPoolMember(i)
    \/ StoreUpdatePool
    \/ StoreDeletePool
    \/ StoreRemovePoolMember
SpecPoolStore == InitPoolStore /\ [][NextPoolStore]_vars

\* C17: pool and pool-member rows are never mutated after creation. In every
\* step, a pool that stays keeps its year and every one of its members with the
\* same cbBefore and cbAfter, and a pool that goes takes all its members along.
C17_PoolsImmutable ==
    [][\A p \in LiveIds(poolsTbl) :
          IF poolsTbl'[p] # Deleted
          THEN /\ poolsTbl'[p] = poolsTbl[p]
               /\ \A k \in LiveIds(poolMembersTbl) :
                     poolMembersTbl[k].poolId = p => poolMembersTbl'[k] = poolMembersTbl[k]
          ELSE \A k \in LiveIds(poolMembersTbl') : poolMembersTbl'[k].poolId # p
      ]_vars

\* ------------- banking over HTTP: cb, bank and apply requests of one ship
\* The queries of GET /api/compliance/cb and the bodies of the bank and apply
\* requests (amounts in gCO2eq): R002's route balance, 263,082,240, covers each
\* of the positive amounts but not one after the other.
BankingQueries == {[shipId |-> "R002", year |-> 2024], [shipId |-> "R002", year |-> 0]}
BankingBodies ==
    {[shipId |-> "R002", year |-> 2024, amount |-> Num(a)] : a \in {0, 100000000, 200000000}}

InitBanking ==
    /\ DomainIdle
    /\ routesBaseline = SeedBaseline
    /\ shipComplianceTbl = <<>> /\ bankEntriesTbl = <<>>
    /\ poolsTbl = <<>> /\ poolMembersTbl = <<>>
    /\ calls = <<>>

\* A cb, bank or apply request arrives.
BankingArrive ==
    /\ Len(calls) < MaxBankingRequests
    /\ \/ \E query \in BankingQueries :
             calls' = Append(calls, ArrivedAlone(cbArrived(query.shipId, query.year)))
       \/ \E op \in {"bank", "apply"}, body \in BankingBodies :
             calls' = Append(calls,
                             ArrivedAlone(arrived(op, body.shipId, body.year, body.amount)))
    /\ UNCHANGED <<domainVars, tableVars>>

NextBanking ==
    \/ BankingArrive
    \/ \E i \in DOMAIN calls :
          \/ CbLookupRoute(i) \/ CbFindExisting(i) \/ CbWrite(i)
          \/ BankCheck(i) \/ BankInsert(i) \/ BankUpdate(i)
          \/ ApplyCheck(i) \/ ApplyInsert(i) \/ ApplyRead(i) \/ ApplyUpdate(i)
SpecBanking == InitBanking /\ [][NextBanking]_vars

\* Every request so far arrived when no other was being served.
AllServedAlone == \A i \in DOMAIN calls : calls[i].alone
\* C27: starting with no bank entries and no compliance records, after any
\* sequence of cb, bank and apply requests, each run to completion, the banked
\* total of a (shipId, year) never exceeds the ship's route-derived balance
\* (nothing can be banked for a ship whose route balance is negative).
C27_BankedWithinRouteBalance ==
    AllServedAlone =>
        \A shipId \in RouteIds, year \in Years :
            NumLeq(totalBanked(shipId, year),
                   IF IsPositive(actualCB(shipId)) THEN actualCB(shipId) ELSE Num(0))

\* ---------------------------------------------------------------------
\* Banking requests in flight together: every awaited storage call of
\* POST /api/banking/bank and POST /api/banking/apply is one step, and the
\* steps of different requests interleave.
\* ---------------------------------------------------------------------
RaceAmounts == {Num(100000000), Num(200000000)}
RaceYear == 2024
\* The handler of GET /api/compliance/cb, run to the end.
getCb(compTbl, shipId, year) ==
    IF shipId = "" \/ year = 0 THEN [status |-> 400, compliance |-> compTbl]
    ELSE IF getRouteByRouteId(shipId) = "undefined" THEN [status |-> 200, compliance |-> compTbl]
    ELSE LET existing == getShipCompliance(compTbl, shipId, year)
         IN [status |-> 200,
             compliance |-> IF existing # 0
                            THEN updateShipCompliance(compTbl, existing, actualCB(shipId))
                            ELSE createShipCompliance(compTbl, shipId, year, actualCB(shipId))]
\* The state before the race: the ship's balance was computed once and some
\* of it may have been banked (banked0 = 0: nothing was), one request at a time.
StoredBeforeRace(shipId, banked0) ==
    CHOOSE stored \in {postBank(computed, <<>>, shipId, RaceYear, banked0) :
                          computed \in {getCb(<<>>, shipId, RaceYear).compliance}} : TRUE
InitRace ==
    /\ DomainIdle
    /\ routesBaseline = SeedBaseline
    /\ poolsTbl = <<>> /\ poolMembersTbl = <<>>
    /\ \E shipId \in RouteIds, banked0 \in RaceAmounts \cup {Num(0)} :
          /\ \E stored \in {StoredBeforeRace(shipId, banked0)} :
                /\ shipComplianceTbl = stored.compliance
                /\ bankEntriesTbl = stored.bank
          /\ \E n \in 1..MaxRaceCalls :
                calls \in [1..n -> {BankCall(op, shipId, RaceYear, a) : op \in {"bank", "apply"},
                                                              a \in RaceAmounts}]

NextRace ==
    \E i \in DOMAIN calls :
        \/ BankCheck(i) \/ BankInsert(i) \/ BankUpdate(i)
        \/ ApplyCheck(i) \/ ApplyInsert(i) \/ ApplyRead(i) \/ ApplyUpdate(i)
SpecRace == InitRace /\ [][NextRace]_vars

\* C28: when two apply requests, or two bank requests, for the same (shipId,
\* year) interleave between their check and their insert, the banked total
\* does not become negative and does not exceed the balance that was
\* available (what was stored plus what was banked before the requests,
\* which is the ship's positive route balance).
C28_RaceWithinLimits ==
    \A i \in DOMAIN calls :
        LET banked == getTotalBanked(bankEntriesTbl, calls[i].shipId, calls[i].year)
            route == actualCB(calls[i].shipId)
        IN ~IsNegative(banked) /\ (IsPositive(route) => NumLeq(banked, route))


====
